---- MODULE Spec2Model ----
(***************************************************************************)
(* Verification model of the creator-os agent pipeline:                    *)
(*   backend/app/agents/strategy_agent.py   (StrategyAgent)                *)
(*   backend/app/agents/orchestrator.py     (OrchestratorAgent)            *)
(*   backend/app/agents/memory.py           (AgentMemory)                  *)
(*   backend/app/agents/analytics_agent.py  (AnalyticsAgent, HEAD side:    *)
(*       the only side that defines the analytics_agent singleton the      *)
(*       orchestrator imports)                                             *)
(*   backend/app/agents/agent_chain.py      (AgentChain, AgentRouter,      *)
(*       ParallelAgentExecutor)                                            *)
(*   backend/app/services/analysis_engine.py       (trend_analysis)        *)
(*   backend/app/services/intelligence_service.py  (IntelligenceService)   *)
(*                                                                         *)
(* Python dicts are modelled as functions with a finite domain of string   *)
(* keys; d.get(k, default) is Get(d, k, default).  Python lists are        *)
(* sequences.  None is the string "None".                                  *)
(***************************************************************************)
EXTENDS Integers, Sequences, FiniteSets, TLC

VARIABLES
    \* ---- OrchestratorAgent.run / quick_analyze (one request in flight)
    pc,            \* position of the request inside run / quick_analyze
    ctx,           \* the AgentContext of the request
    observations,  \* local dict `observations`
    history,       \* local `history`
    decision,      \* local `decision`
    response,      \* value returned to the caller
    stageTrace,    \* pipeline stages visited by the request, in order
    env,           \* what the collaborators did to the request (returned / raised)
    shortTerm,     \* AgentMemory._short_term
    nRequests,     \* number of requests started so far
    \* ---- StrategyAgent.decide / _determine_verdict applied to drawn inputs
    dIn, dOut,
    vIn, vOut,
    \* ---- AgentChain.run
    chainSteps,    \* AgentChain.steps
    stopOnError,   \* argument stop_on_error
    chainPc,       \* "idle" | "running" | "done"
    stepIdx,       \* index of the step being executed
    attempt,       \* attempts already made for that step
    lastError,     \* _execute_step.last_error
    context,       \* local dict `context` of run
    chainResult,   \* the ChainResult under construction
    invoked,       \* per step: how many times its agent_fn was invoked
    attemptLog,    \* per step: how each await of its agent_fn ended, in order
    passed,        \* per step started: the context _execute_step was given
    \* ---- ParallelAgentExecutor.run
    parAgents,     \* ParallelAgentExecutor.agents
    parPc,         \* "building" | "running" | "done" | "raised"
    branch,        \* per task of line 279: pending, returned (with its value) or cancelled
    completed,     \* the tasks that have ended, in the order they ended
    parResult,     \* the dict run returns
    \* ---- AgentRouter
    routes,        \* AgentRouter.routes, in insertion order
    defaultAgent,  \* AgentRouter.default_agent
    nRegistered,   \* number of register calls so far
    routed,        \* what one call of route did: query, intent, fn awaited, result
    \* ---- AgentMemory used directly: store, recall, get_patterns
    nStored,       \* per user: number of store calls made for the user
    recalled,      \* what the latest recall or get_patterns call returned
    \* ---- AnalysisEngine.trend_analysis applied to drawn inputs
    tIn, tOut,
    \* ---- IntelligenceService.run_full_analysis for one user
    drafts,        \* the user's content with performance, in the order the query returns it
    patternRows,   \* the user's rows of table ContentPattern, in insertion order
    analysis,      \* what the latest run_full_analysis did and returned
    prevAnalysis,  \* the same for the run before it
    \* ---- ParallelAgentExecutor.run: the dict every task is handed
    parContext,    \* the caller's `context` dict, the object line 263 passes to every fn
    \* ---- OrchestratorAgent.run, several requests in flight on one event loop
    reqs,          \* per request: its position in run and its locals (ctx, observations, history, decision, response)
    \* ---- services/agent_memory.py: save_memory / load_memory on table AgentMemory
    kvRows,        \* the rows of table AgentMemory, in insertion order
    kvCalls,       \* per caller: the save_memory call it has in flight, if any
    kvLast,        \* per key: the value of the save_memory call that committed last
    kvLoaded       \* what the latest load_memory call was asked and returned

orchVars  == <<pc, ctx, observations, history, decision, response,
               stageTrace, env, shortTerm, nRequests>>
probeVars == <<dIn, dOut, vIn, vOut>>
chainVars == <<chainSteps, stopOnError, chainPc, stepIdx, attempt, lastError,
               context, chainResult, invoked, attemptLog, passed>>
parVars   == <<parAgents, parPc, branch, completed, parResult>>
routerVars == <<routes, defaultAgent, nRegistered, routed>>
memVars == <<nStored, recalled>>
svcVars == <<tIn, tOut, drafts, patternRows, analysis, prevAnalysis>>
kvVars == <<kvRows, kvCalls, kvLast, kvLoaded>>
conVars == <<parContext, reqs, kvVars>>
extraVars == <<parVars, routerVars, memVars, svcVars, conVars>>
notParVars == <<orchVars, probeVars, chainVars, routerVars, memVars, svcVars, conVars>>
notRouterVars == <<orchVars, probeVars, chainVars, parVars, memVars, svcVars, conVars>>
notMemVars == <<pc, ctx, observations, history, decision, response, stageTrace, env,
                nRequests, probeVars, chainVars, parVars, routerVars, svcVars, conVars>>
notSvcVars == <<orchVars, probeVars, chainVars, parVars, routerVars, memVars, conVars>>
notConVars == <<pc, ctx, observations, history, decision, response, stageTrace, env,
                nRequests, probeVars, chainVars, parVars, routerVars, memVars, svcVars>>
vars == <<orchVars, probeVars, chainVars, extraVars>>

-----------------------------------------------------------------------------
(* Python helpers *)

None == "None"

EmptyDict == [k \in {} |-> TRUE]

Get(d, k, default) == IF k \in DOMAIN d THEN d[k] ELSE default

\* d.get(k) used as a condition, for a key whose value is a bool
Flag(d, k) == (k \in DOMAIN d) /\ (d[k] = TRUE)

Min(a, b) == IF a < b THEN a ELSE b
Max(a, b) == IF a > b THEN a ELSE b

\* Python's // on integers, for a positive divisor
FloorDiv(a, b) == IF a >= 0 THEN a \div b ELSE 0 - ((b - 1 - a) \div b)

\* lst[:n]
Take(lst, n) == SubSeq(lst, 1, Min(n, Len(lst)))

\* lst[-n:]: the last n items for n >= 1, the whole list for n = 0 (lst[0:])
LastN(lst, n) ==
    IF n > 0 THEN SubSeq(lst, Max(1, Len(lst) - n + 1), Len(lst))
    ELSE SubSeq(lst, 1 - n, Len(lst))

SeqToSet(lst) == {lst[i] : i \in DOMAIN lst}

\* F applied to the value of e, with e evaluated once
WithValue(e, F(_)) == CHOOSE r \in {F(v) : v \in {e}} : TRUE

\* lst without the items of `seen` and without repeats, first occurrences kept
RECURSIVE DedupeFrom(_, _)
DedupeFrom(lst, seen) ==
    IF lst = <<>> THEN <<>>
    ELSE WithValue(Tail(lst), LAMBDA rest :
           IF lst[1] \in seen THEN DedupeFrom(rest, seen)
           ELSE WithValue(seen \cup {lst[1]}, LAMBDA seen2 :
                  <<lst[1]>> \o DedupeFrom(rest, seen2)))

DedupeKeepsRepeats(lst) == lst

\* list(dict.fromkeys(lst)): drop every repeat, keep first occurrences in order
Dedupe(lst) == WithValue(lst, LAMBDA v : DedupeFrom(v, {}))

RECURSIVE SumSeq(_)
SumSeq(lst) == IF lst = <<>> THEN 0 ELSE lst[1] + SumSeq(Tail(lst))

-----------------------------------------------------------------------------
(* StrategyAgent (strategy_agent.py) *)

NoPlatform == None

\* the vision part of decide's score: lines 46-57
VisionDelta(vision) ==
    IF Flag(vision, "analyzed")
    THEN IF Get(vision, "risk", None) = "High" THEN 0 - 20
         ELSE IF Get(vision, "risk", None) = "Medium" THEN 0 - 10
         ELSE 10
    ELSE 0

\* the hook part of decide's score: lines 69-72
HookDelta(content) ==
    IF Get(content, "hook_strength", None) = "Strong" THEN 5
    ELSE IF Get(content, "hook_strength", None) = "Weak" THEN 0 - 5
    ELSE 0

TrendDeltaDoubled(hist) ==
    IF Flag(hist, "has_data")
       /\ Get(Get(hist, "patterns", EmptyDict), "engagement_trend", None) = "growing"
    THEN 10 ELSE 0

\* the history part of decide's score: lines 75-80
TrendDelta(hist) ==
    IF Flag(hist, "has_data")
       /\ Get(Get(hist, "patterns", EmptyDict), "engagement_trend", None) = "growing"
    THEN 5 ELSE 0

RawScoreHookFirst(obs, hist) ==
    LET vision  == Get(obs, "vision", EmptyDict)
        content == Get(obs, "content", EmptyDict)
        s1 == 50 + VisionDelta(vision)
        s2 == IF Flag(content, "analyzed")
              THEN FloorDiv(s1 + HookDelta(content) + Get(content, "score", 50), 2)
              ELSE s1
    IN  s2 + TrendDelta(hist)

\* the local `score` of decide when it reaches line 96
RawScore(obs, hist) ==
    LET vision  == Get(obs, "vision", EmptyDict)
        content == Get(obs, "content", EmptyDict)
        s1 == 50 + VisionDelta(vision)
        s2 == IF Flag(content, "analyzed")
              THEN FloorDiv(s1 + Get(content, "score", 50), 2) + HookDelta(content)
              ELSE s1
    IN  s2 + TrendDelta(hist)

\* the local `warnings` of decide
Warnings(obs) ==
    LET vision  == Get(obs, "vision", EmptyDict)
        content == Get(obs, "content", EmptyDict)
        w1 == IF Flag(vision, "analyzed")
              THEN IF Get(vision, "risk", None) = "High"
                   THEN <<"High visual risk">>
                   ELSE IF Get(vision, "risk", None) = "Medium"
                   THEN <<"Some visual improvements possible">>
                   ELSE <<>>
              ELSE <<>>
        w2 == IF Flag(content, "analyzed") /\ Get(content, "issues", <<>>) # <<>>
              THEN Take(Get(content, "issues", <<>>), 2)
              ELSE <<>>
    IN  w1 \o w2

_get_platform_advice(platform, obs) ==
    LET content == Get(obs, "content", EmptyDict)
        details == Get(content, "details", EmptyDict)
    IN  IF platform = "instagram"
        THEN (IF Get(details, "hashtag_count", 0) < 3
              THEN <<"Add 5-10 relevant hashtags for Instagram discovery">>
              ELSE <<>>)
             \o
             (IF Get(details, "hashtag_count", 0) > 15
              THEN <<"Reduce hashtags to 10-15 for clean Instagram posting">>
              ELSE <<>>)
        ELSE IF platform = "twitter"
        THEN IF Get(details, "char_count", 0) > 250
             THEN <<"Consider shortening for Twitter's fast-scroll format">>
             ELSE <<>>
        ELSE IF platform = "linkedin"
        THEN IF ~Flag(content, "has_cta")
             THEN <<"LinkedIn posts with clear CTAs get 2x more engagement">>
             ELSE <<>>
        ELSE <<>>

\* the local `advice` of decide when it reaches line 96 (before dedupe)
CollectedAdvice(obs, hist, platform) ==
    LET vision  == Get(obs, "vision", EmptyDict)
        content == Get(obs, "content", EmptyDict)
        a1 == IF Flag(vision, "analyzed")
              THEN IF Get(vision, "risk", None) = "High"
                   THEN Take(Get(vision, "fixes", <<>>), 2)
                   ELSE IF Get(vision, "risk", None) = "Medium"
                   THEN Take(Get(vision, "fixes", <<>>), 1)
                   ELSE <<>>
              ELSE <<>>
        a2 == IF Flag(content, "analyzed") /\ Get(content, "issues", <<>>) # <<>>
              THEN Take(Get(content, "suggestions", <<>>), 2)
              ELSE <<>>
        trend == Get(Get(hist, "patterns", EmptyDict), "engagement_trend", None)
        a3 == IF Flag(hist, "has_data")
              THEN (IF trend = "growing"
                    THEN <<"Your recent growth suggests this content style works!">>
                    ELSE IF trend = "declining"
                    THEN <<"Consider trying a different approach based on recent trends">>
                    ELSE <<>>)
                   \o Take(Get(hist, "insights", <<>>), 1)
              ELSE <<"I'm learning your patterns. Keep posting!">>
        a4 == IF platform # NoPlatform THEN _get_platform_advice(platform, obs) ELSE <<>>
    IN  a1 \o a2 \o a3 \o a4

ConfidenceLowThreshold(obs, hist) ==
    LET c1 == IF Flag(Get(obs, "vision", EmptyDict), "analyzed") THEN 2 ELSE 0
        c2 == IF Flag(Get(obs, "content", EmptyDict), "analyzed") THEN 2 ELSE 0
        c3 == IF Flag(hist, "has_data") THEN 3 ELSE 0
        confidence_score == c1 + c2 + c3
    IN  IF confidence_score >= 5 THEN "High"
        ELSE IF confidence_score >= 0 THEN "Medium"
        ELSE "Low"

_calculate_confidence(obs, hist) ==
    LET c1 == IF Flag(Get(obs, "vision", EmptyDict), "analyzed") THEN 2 ELSE 0
        c2 == IF Flag(Get(obs, "content", EmptyDict), "analyzed") THEN 2 ELSE 0
        c3 == IF Flag(hist, "has_data")
              THEN 2 + (IF Get(Get(hist, "patterns", EmptyDict), "engagement_trend", None)
                            # "unknown" THEN 1 ELSE 0)
              ELSE 0
        confidence_score == c1 + c2 + c3
    IN  IF confidence_score >= 5 THEN "High"
        ELSE IF confidence_score >= 3 THEN "Medium"
        ELSE "Low"

VerdictStrictPost(score, warnings) ==
    IF score > 70 /\ Len(warnings) = 0 THEN "Post"
    ELSE IF score >= 50 \/ Len(warnings) <= 1 THEN "Post with tweaks"
    ELSE IF score >= 30 THEN "Fix before posting"
    ELSE "Reconsider"

VerdictScoreOnly(score, warnings) ==
    IF score >= 70 /\ Len(warnings) = 0 THEN "Post"
    ELSE IF score >= 50 THEN "Post with tweaks"
    ELSE IF score >= 30 THEN "Fix before posting"
    ELSE "Reconsider"

_determine_verdict(score, warnings) ==
    IF score >= 70 /\ Len(warnings) = 0 THEN "Post"
    ELSE IF score >= 50 \/ Len(warnings) <= 1 THEN "Post with tweaks"
    ELSE IF score >= 30 THEN "Fix before posting"
    ELSE "Reconsider"

\* the explanation string, kept as its parts: the score cited and the reasons
_generate_explanation(obs, hist, score) ==
    LET vision  == Get(obs, "vision", EmptyDict)
        content == Get(obs, "content", EmptyDict)
        r1 == IF Flag(vision, "analyzed")
              THEN <<<<"Visual risk", Get(vision, "risk", "Unknown")>>>> ELSE <<>>
        r2 == IF Flag(content, "analyzed")
              THEN <<<<"Hook strength", Get(content, "hook_strength", "Unknown")>>>> ELSE <<>>
        r3 == IF Flag(hist, "has_data")
              THEN <<<<"Your trend",
                       Get(Get(hist, "patterns", EmptyDict), "engagement_trend", "stable")>>>>
              ELSE <<<<"Limited history data", None>>>>
    IN  [score |-> score, reasons |-> r1 \o r2 \o r3]

ClampNone(score) == score

\* min(100, max(0, score)), line 110
Clamp(score) == Min(100, Max(0, score))

DecideUsesMemory(obs, hist, platform, now) ==
    LET score    == RawScore(obs, hist) + (IF shortTerm # EmptyDict THEN 5 ELSE 0)
        warnings == Warnings(obs)
    IN  [confidence |-> _calculate_confidence(obs, hist),
         score      |-> Clamp(score),
         verdict    |-> _determine_verdict(score, warnings),
         advice     |-> Take(Dedupe(CollectedAdvice(obs, hist, platform)), 5),
         warnings   |-> warnings,
         why        |-> _generate_explanation(obs, hist, score),
         timestamp  |-> now]

decide(obs, hist, platform, now) ==
    LET score    == RawScore(obs, hist)
        warnings == Warnings(obs)
    IN  [confidence |-> _calculate_confidence(obs, hist),
         score      |-> Clamp(score),
         verdict    |-> _determine_verdict(score, warnings),
         advice     |-> Take(Dedupe(CollectedAdvice(obs, hist, platform)), 5),
         warnings   |-> warnings,
         why        |-> _generate_explanation(obs, hist, score),
         timestamp  |-> now]

-----------------------------------------------------------------------------
(* Results a capability can hand to the pipeline.  Only the keys that the   *)
(* orchestrator, the strategy agent or the memory read are kept.            *)

Risks == {"High", "Medium", "Low"}

FixLists ==
    { <<"Add a face to the image - faces increase engagement by 38%",
        "Increase brightness/exposure - dark images get less attention",
        "Consider adding text overlay for context (optional)">>,
      <<"Image looks good! Ready to post.">> }

\* VisionAgent.analyze, successful return (vision_agent.py lines 50-56)
VisionAnalyzed == { [analyzed |-> TRUE, risk |-> r, fixes |-> f] : r \in Risks, f \in FixLists }

\* VisionAgent.analyze, its own degraded returns (lines 32-35 and 60-63)
VisionFailed == { [analyzed |-> FALSE, error |-> "vision error"] }

HookStrengths == {"Strong", "Medium", "Weak"}

IssueLists ==
    { <<>>,
      <<"No call-to-action">>,
      <<"Weak hook in first line", "Caption too short", "No call-to-action">> }

\* the suggestions ContentAgent.analyze compiles next to a list of issues
SuggestionsFor(issues) ==
    IF issues = <<>> THEN <<"Add a question to drive comments">>
    ELSE IF Len(issues) = 1
    THEN <<"Add CTA: 'Comment below', 'Save this', 'Share with someone'",
           "Add a question to drive comments">>
    ELSE <<"Start with a question, bold statement, or surprising fact",
           "Add more context (100-300 chars ideal)",
           "Add CTA: 'Comment below', 'Save this', 'Share with someone'",
           "Add a question to drive comments">>

DetailSets ==
    { [char_count |-> 40,  hashtag_count |-> 0],
      [char_count |-> 200, hashtag_count |-> 5],
      [char_count |-> 400, hashtag_count |-> 20] }

\* content sub-scores, inside and outside 0..100, even and odd
ContentScores == {0 - 60, 0 - 55, 0, 28, 50, 75, 80, 90, 100, 260}

\* ContentAgent.analyze, successful return (content_agent.py lines 93-107)
ContentAnalyzedWith(scores) ==
    { [analyzed |-> TRUE, score |-> sc, hook_strength |-> h, has_cta |-> c,
       issues |-> i, suggestions |-> SuggestionsFor(i), details |-> d] :
         sc \in scores, h \in HookStrengths, c \in BOOLEAN,
         i \in IssueLists, d \in DetailSets }

Platforms == {NoPlatform, "instagram", "twitter", "linkedin", "youtube"}

Trends == {"growing", "declining", "stable", "unknown"}

\* history dicts handed to decide: no data, failed, data with and without a trend,
\* and data whose first insight repeats the advice decide gives for the trend
HistoryInputs ==
    { [has_data |-> FALSE], [has_data |-> FALSE, error |-> "db error"] }
    \cup { [has_data |-> TRUE, patterns |-> [engagement_trend |-> t],
            insights |-> <<"Your best posting time appears to be around 8 PM.">>] :
              t \in Trends }
    \cup { [has_data |-> TRUE, patterns |-> EmptyDict, insights |-> <<>>] }
    \cup { [has_data |-> TRUE, patterns |-> [engagement_trend |-> "growing"],
            insights |-> <<"Your recent growth suggests this content style works!">>] }

\* observations dicts handed to decide
ObservationInputs ==
    LET V == {EmptyDict} \cup {("vision" :> v) : v \in VisionAnalyzed \cup VisionFailed}
        C == {EmptyDict} \cup {("content" :> c) :
                 c \in ContentAnalyzedWith(ContentScores)
                       \cup {[analyzed |-> FALSE, error |-> "content error"]}}
    IN  { v @@ c : v \in V, c \in C }

NoDecision == EmptyDict

-----------------------------------------------------------------------------
(* AnalyticsAgent, HEAD side (analytics_agent.py lines 15-172) and the     *)
(* tools it calls (tools.py).  A post is the dict get_recent_posts builds;  *)
(* only its "metrics" are read.                                             *)

\* raw_metrics whose "engagement" is not a number: `e > 0` raises TypeError
NonNumericMetrics == [engagement_is_text |-> TRUE]

Post(e) == [metrics |-> [engagement |-> e]]

\* what the history store holds for a user
PostHistories ==
    { <<>>,
      <<Post(100), Post(105)>>,
      <<Post(100), Post(0), Post(200)>>,
      <<Post(200), Post(100)>>,
      <<Post(100), [metrics |-> NonNumericMetrics]>> }

\* tools.get_recent_posts: a failing store yields [] (tools.py lines 61-80)
get_recent_posts(storeRaises, stored) == IF storeRaises THEN <<>> ELSE stored

\* _analyze_patterns raises on these posts
AnalysisRaises(posts) ==
    \E i \in DOMAIN posts : Flag(posts[i].metrics, "engagement_is_text")

\* [e for e in engagements if e > 0]
RECURSIVE ValidEngagements(_)
ValidEngagements(posts) ==
    IF posts = <<>> THEN <<>>
    ELSE LET e == Get(posts[1].metrics, "engagement", 0)
         IN  (IF e > 0 THEN <<e>> ELSE <<>>) \o ValidEngagements(Tail(posts))

\* the comparisons of lines 130-136, on exact rationals:
\*   second_half > first_half * 1.1  <=>  10 * sum2 * mid > 11 * sum1 * (n - mid)
_analyze_patterns(posts) ==
    LET valid == ValidEngagements(posts)
        n     == Len(valid)
        mid   == n \div 2
        sum1  == SumSeq(SubSeq(valid, 1, mid))
        sum2  == SumSeq(SubSeq(valid, mid + 1, n))
        trend == IF n > 0 /\ mid > 0
                 THEN IF 10 * sum2 * mid > 11 * sum1 * (n - mid) THEN "growing"
                      ELSE IF 10 * sum2 * mid < 9 * sum1 * (n - mid) THEN "declining"
                      ELSE "stable"
                 ELSE "stable"
    IN  [posting_frequency |-> "unknown",
         best_day          |-> "Tuesday",
         best_hour         |-> "8 PM",
         avg_engagement    |-> IF n > 0 THEN SumSeq(valid) \div n ELSE 0,
         engagement_trend  |-> trend]

_generate_insights(patterns) ==
    (IF Get(patterns, "engagement_trend", None) = "growing"
     THEN <<"Your engagement is growing! Keep up your current strategy.">>
     ELSE IF Get(patterns, "engagement_trend", None) = "declining"
     THEN <<"Engagement has been declining. Consider refreshing your content style.">>
     ELSE <<>>)
    \o <<"Your best posting time appears to be around 8 PM.">>
    \o (IF Get(patterns, "avg_engagement", 0) > 1000
        THEN <<"Strong engagement! You're doing well.">>
        ELSE IF Get(patterns, "avg_engagement", 0) > 100
        THEN <<"Good engagement. Focus on hook optimization to grow.">>
        ELSE <<"Building engagement takes time. Stay consistent!">>)

FetchIgnoresAnalysisError(storeRaises, stored) ==
    LET posts == get_recent_posts(storeRaises, stored)
    IN  IF posts = <<>> THEN [has_data |-> FALSE, message |-> "No historical data yet"]
        ELSE [has_data |-> TRUE,
              total_posts_analyzed |-> Len(posts),
              patterns |-> _analyze_patterns(posts),
              insights |-> _generate_insights(_analyze_patterns(posts))]

\* AnalyticsAgent.fetch_user_patterns; user_tier, platforms and recommendations,
\* which nothing downstream reads, are left out of the returned dict
fetch_user_patterns(storeRaises, stored) ==
    LET posts == get_recent_posts(storeRaises, stored)
    IN  IF posts = <<>>
        THEN [has_data |-> FALSE, message |-> "No historical data yet"]
        ELSE IF AnalysisRaises(posts)
        THEN [has_data |-> FALSE, error |-> "TypeError"]
        ELSE [has_data |-> TRUE,
              total_posts_analyzed |-> Len(posts),
              patterns |-> _analyze_patterns(posts),
              insights |-> _generate_insights(_analyze_patterns(posts))]

-----------------------------------------------------------------------------
(* AgentMemory (memory.py) *)

_max_short_term == 50

StoreShortTermKeepsOldest(mem, user_id, observation, dec, context_summary, now) ==
    LET entry == [timestamp   |-> now,
                  observation |-> observation,
                  decision    |-> dec,
                  context     |-> context_summary]
        old   == IF user_id \in DOMAIN mem THEN mem[user_id] ELSE <<>>
        new   == Append(old, entry)
        kept  == IF Len(new) > _max_short_term THEN Take(new, _max_short_term) ELSE new
    IN  [u \in DOMAIN mem \cup {user_id} |-> IF u = user_id THEN kept ELSE mem[u]]

StoreShortTermPrepends(mem, user_id, observation, dec, context_summary, now) ==
    LET entry == [timestamp   |-> now,
                  observation |-> observation,
                  decision    |-> dec,
                  context     |-> context_summary]
        old   == IF user_id \in DOMAIN mem THEN mem[user_id] ELSE <<>>
        new   == <<entry>> \o old
        kept  == IF Len(new) > _max_short_term THEN LastN(new, _max_short_term) ELSE new
    IN  [u \in DOMAIN mem \cup {user_id} |-> IF u = user_id THEN kept ELSE mem[u]]

\* lines 37-52 of store: build the entry, append it, trim to the last 50
StoreShortTerm(mem, user_id, observation, dec, context_summary, now) ==
    LET entry == [timestamp   |-> now,
                  observation |-> observation,
                  decision    |-> dec,
                  context     |-> context_summary]
        old   == IF user_id \in DOMAIN mem THEN mem[user_id] ELSE <<>>
        new   == Append(old, entry)
        kept  == IF Len(new) > _max_short_term THEN LastN(new, _max_short_term) ELSE new
    IN  [u \in DOMAIN mem \cup {user_id} |-> IF u = user_id THEN kept ELSE mem[u]]

StorePersistFirst(mem, user_id, observation, dec, context_summary, now, persistRaises) ==
    IF persistRaises
    THEN [mem |-> mem, raised |-> FALSE]
    ELSE [mem |-> StoreShortTerm(mem, user_id, observation, dec, context_summary, now),
          raised |-> FALSE]

StoreUncaught(mem, user_id, observation, dec, context_summary, now, persistRaises) ==
    [mem |-> StoreShortTerm(mem, user_id, observation, dec, context_summary, now),
     raised |-> persistRaises]

\* AgentMemory.store: the short-term write happens before _persist_to_db is
\* tried, and an exception of _persist_to_db is caught (lines 55-58).
\* Result: the new _short_term, and whether store itself raised.
store(mem, user_id, observation, dec, context_summary, now, persistRaises) ==
    [mem |-> StoreShortTerm(mem, user_id, observation, dec, context_summary, now),
     raised |-> FALSE]

\* AgentMemory.recall for limit >= 1; _fetch_from_db returns []
recall(mem, user_id, limit) ==
    IF user_id \in DOMAIN mem THEN LastN(mem[user_id], limit) ELSE <<>>

Count(items, x) == Cardinality({i \in DOMAIN items : items[i] = x})

\* the number of occurrences in `items` of each item of `distinct`
RECURSIVE CountEach(_, _)
CountEach(distinct, items) ==
    IF distinct = <<>> THEN <<>>
    ELSE <<Count(items, distinct[1])>>
         \o WithValue(Tail(distinct), LAMBDA rest : CountEach(rest, items))

RemoveAt(lst, b) == SubSeq(lst, 1, b - 1) \o SubSeq(lst, b + 1, Len(lst))

\* the n items of `remaining` with the highest counts, by decreasing count;
\* among equal counts the one that occurred first comes first
RECURSIVE TakeMostCommon(_, _, _)
TakeMostCommon(remaining, counts, n) ==
    IF n = 0 \/ remaining = <<>> THEN <<>>
    ELSE WithValue(CHOOSE i \in DOMAIN counts :
                     \A j \in DOMAIN counts :
                        \/ counts[j] < counts[i]
                        \/ counts[j] = counts[i] /\ j >= i,
                   LAMBDA b :
           WithValue(<<RemoveAt(remaining, b), RemoveAt(counts, b)>>, LAMBDA rest :
             <<remaining[b]>> \o TakeMostCommon(rest[1], rest[2], n - 1)))

\* [item for item, _ in Counter(items).most_common(n)]
_most_common(items, n) ==
    WithValue(items, LAMBDA its :
        WithValue(Dedupe(its), LAMBDA distinct :
            WithValue(CountEach(distinct, its), LAMBDA counts :
                TakeMostCommon(distinct, counts, n))))

RECURSIVE Flatten(_)
Flatten(lists) == IF lists = <<>> THEN <<>> ELSE lists[1] \o Flatten(Tail(lists))

HasVision(m) == "vision" \in DOMAIN m.observation

HasContent(m) == "content" \in DOMAIN m.observation

\* the aggregation loop of get_patterns, lines 85-98
VisionRisks(memories) ==
    LET seen == SelectSeq(memories, HasVision)
    IN  [i \in DOMAIN seen |-> Get(seen[i].observation["vision"], "risk", "Unknown")]

ContentIssues(memories) ==
    LET seen == SelectSeq(memories, HasContent)
    IN  Flatten([i \in DOMAIN seen |-> Get(seen[i].observation["content"], "issues", <<>>)])

DecisionsMade(memories) ==
    Flatten([i \in DOMAIN memories |-> Get(memories[i].decision, "advice", <<>>)])

get_patterns(mem, user_id) ==
    WithValue(recall(mem, user_id, 50), LAMBDA memories :
        IF memories = <<>> THEN [has_history |-> FALSE]
        ELSE [has_history |-> TRUE,
              total_observations |-> Len(memories),
              common_vision_risks |-> _most_common(VisionRisks(memories), 3),
              recurring_content_issues |-> _most_common(ContentIssues(memories), 3),
              past_advice |-> _most_common(DecisionsMade(memories), 5)])

-----------------------------------------------------------------------------
(* OrchestratorAgent (orchestrator.py) *)

MaxRequests == 1

Users == {"u1"}

Images == {None, "image bytes"}

\* ctx.text: absent, blank, or a caption
Texts == {None, "  ", "Check out my new video! Comment below"}

OrchPlatforms == {NoPlatform, "instagram"}

\* AgentContext (context.py, HEAD side); image_base64 is never set here
Contexts == [user_id : Users, platform : OrchPlatforms, image : Images, text : Texts]

has_image(c) == c.image # None

\* text is not None and len(text.strip()) > 0
has_text(c) == c.text # None /\ c.text # "  "

\* what the Vision capability hands back to the orchestrator
OrchVisionResults ==
    { v \in VisionAnalyzed :
        /\ v.risk \in {"High", "Low"}
        /\ Len(v.fixes) = (IF v.risk = "High" THEN 3 ELSE 1) }
    \cup VisionFailed

\* what the Content capability hands back to the orchestrator
OrchContentResults ==
    { c \in ContentAnalyzedWith({28, 90}) :
        \/ /\ c.score = 90 /\ c.hook_strength = "Strong" /\ c.has_cta
           /\ c.issues = <<>> /\ c.details.hashtag_count = 5
        \/ /\ c.score = 28 /\ c.hook_strength = "Weak" /\ ~c.has_cta
           /\ Len(c.issues) = 3 /\ c.details.hashtag_count = 0 }

NoResponse == EmptyDict

EnvInit(mode) ==
           [mode |-> mode, vision |-> "not called", content |-> "not called",
            store |-> "not called", analysis |-> "not called",
            posts |-> <<>>, persist |-> "not called"]

\* str(e) of the exception a capability raised
ErrorText == "capability raised"

RecordNothing(obs, name) == obs

\* the except branches of run, lines 59-61 and 68-70
RecordFailure(obs, name) == (name :> [analyzed |-> FALSE, error |-> ErrorText]) @@ obs

\* the f-string of line 93
context_summary(c) ==
    <<(IF c.platform # NoPlatform THEN c.platform ELSE "unknown"),
      (IF c.text # None THEN c.text ELSE "image only")>>

\* the "observations" part of the response, lines 102-105
ObservationSummary(obs) ==
    [vision  |-> IF Flag(Get(obs, "vision", EmptyDict), "analyzed")
                 THEN Get(Get(obs, "vision", EmptyDict), "risk", "N/A")
                 ELSE "not analyzed",
     content |-> IF Flag(Get(obs, "content", EmptyDict), "analyzed")
                 THEN Get(Get(obs, "content", EmptyDict), "hook_strength", "N/A")
                 ELSE "not analyzed"]

Idle == pc \in {"idle", "done", "raised"}

\* a caller invokes orchestrator.run(ctx): lines 48-50
RunStart ==
    /\ Idle
    /\ nRequests < MaxRequests
    /\ \E c \in Contexts : ctx' = c
    /\ nRequests' = nRequests + 1
    /\ observations' = EmptyDict
    /\ history' = EmptyDict
    /\ decision' = NoDecision
    /\ response' = NoResponse
    /\ stageTrace' = <<>>
    /\ env' = EnvInit("run")
    /\ pc' = "run_vision"
    /\ UNCHANGED <<shortTerm, probeVars, chainVars, extraVars>>

\* OBSERVE, vision: lines 55-61
RunVision ==
    /\ pc = "run_vision"
    /\ stageTrace' = Append(stageTrace, "Observing")
    /\ IF has_image(ctx)
       THEN \/ \E v \in OrchVisionResults :
                 /\ observations' = ("vision" :> v) @@ observations
                 /\ env' = [env EXCEPT !.vision = "returned"]
            \/ /\ observations' = RecordFailure(observations, "vision")
               /\ env' = [env EXCEPT !.vision = "raised"]
       ELSE UNCHANGED <<observations, env>>
    /\ pc' = "run_content"
    /\ UNCHANGED <<ctx, history, decision, response, shortTerm, nRequests,
                   probeVars, chainVars, extraVars>>

\* OBSERVE, content: lines 64-70
RunContent ==
    /\ pc = "run_content"
    /\ IF has_text(ctx)
       THEN \/ \E c \in OrchContentResults :
                 /\ observations' = ("content" :> c) @@ observations
                 /\ env' = [env EXCEPT !.content = "returned"]
            \/ /\ observations' = RecordFailure(observations, "content")
               /\ env' = [env EXCEPT !.content = "raised"]
       ELSE UNCHANGED <<observations, env>>
    /\ pc' = "run_understand"
    /\ UNCHANGED <<ctx, history, decision, response, stageTrace, shortTerm, nRequests,
                   probeVars, chainVars, extraVars>>

\* UNDERSTAND: line 75
RunUnderstand ==
    /\ pc = "run_understand"
    /\ stageTrace' = Append(stageTrace, "Understanding")
    /\ \E storeRaises \in BOOLEAN, stored \in PostHistories :
         /\ storeRaises => stored = <<>>
         /\ history' = fetch_user_patterns(storeRaises, stored)
         /\ env' = [env EXCEPT
                      !.store = IF storeRaises THEN "raised" ELSE "returned",
                      !.posts = stored,
                      !.analysis = IF get_recent_posts(storeRaises, stored) = <<>>
                                   THEN "not called"
                                   ELSE IF AnalysisRaises(stored) THEN "raised"
                                   ELSE "returned"]
    /\ pc' = "run_reason"
    /\ UNCHANGED <<ctx, observations, decision, response, shortTerm, nRequests,
                   probeVars, chainVars, extraVars>>

\* REASON: lines 80-84
RunReason ==
    /\ pc = "run_reason"
    /\ stageTrace' = Append(stageTrace, "Reasoning")
    /\ decision' = decide(observations, history, ctx.platform, nRequests)
    /\ pc' = "run_remember"
    /\ UNCHANGED <<ctx, observations, history, response, env, shortTerm, nRequests,
                   probeVars, chainVars, extraVars>>

\* REMEMBER: lines 89-94
RunRemember ==
    /\ pc = "run_remember"
    /\ stageTrace' = Append(stageTrace, "Remembered")
    /\ \E persistRaises \in BOOLEAN :
         LET r == store(shortTerm, ctx.user_id, observations, decision,
                        context_summary(ctx), nRequests, persistRaises)
         IN  /\ shortTerm' = r.mem
             /\ env' = [env EXCEPT !.persist = IF persistRaises THEN "raised" ELSE "returned"]
             /\ pc' = IF r.raised THEN "raised" ELSE "run_return"
    /\ UNCHANGED <<ctx, observations, history, decision, response, nRequests,
                   probeVars, chainVars, extraVars>>

\* RETURN: the response is shaped, lines 98-108
RunReturn ==
    /\ pc = "run_return"
    /\ stageTrace' = Append(stageTrace, "Advising")
    /\ response' = [status          |-> "success",
                    user_id         |-> ctx.user_id,
                    platform        |-> ctx.platform,
                    observations    |-> ObservationSummary(observations),
                    decision        |-> decision,
                    memory_patterns |-> get_patterns(shortTerm, ctx.user_id)]
    /\ pc' = "done"
    /\ UNCHANGED <<ctx, observations, history, decision, env, shortTerm, nRequests,
                   probeVars, chainVars, extraVars>>

\* a caller invokes orchestrator.quick_analyze(ctx): line 116
QuickStart ==
    /\ Idle
    /\ nRequests < MaxRequests
    /\ \E c \in Contexts : ctx' = c
    /\ nRequests' = nRequests + 1
    /\ observations' = EmptyDict
    /\ history' = EmptyDict
    /\ decision' = NoDecision
    /\ response' = NoResponse
    /\ stageTrace' = <<>>
    /\ env' = EnvInit("quick")
    /\ pc' = "quick_vision"
    /\ UNCHANGED <<shortTerm, probeVars, chainVars, extraVars>>

\* lines 118-119: no handler, an exception of the capability leaves quick_analyze
QuickVision ==
    /\ pc = "quick_vision"
    /\ IF has_image(ctx)
       THEN \/ \E v \in OrchVisionResults :
                 /\ observations' = ("vision" :> v) @@ observations
                 /\ env' = [env EXCEPT !.vision = "returned"]
                 /\ pc' = "quick_content"
            \/ /\ env' = [env EXCEPT !.vision = "raised"]
               /\ pc' = "raised"
               /\ UNCHANGED observations
       ELSE /\ pc' = "quick_content"
            /\ UNCHANGED <<observations, env>>
    /\ UNCHANGED <<ctx, history, decision, response, stageTrace, shortTerm, nRequests,
                   probeVars, chainVars, extraVars>>

\* lines 121-122
QuickContent ==
    /\ pc = "quick_content"
    /\ IF has_text(ctx)
       THEN \/ \E c \in OrchContentResults :
                 /\ observations' = ("content" :> c) @@ observations
                 /\ env' = [env EXCEPT !.content = "returned"]
                 /\ pc' = "quick_decide"
            \/ /\ env' = [env EXCEPT !.content = "raised"]
               /\ pc' = "raised"
               /\ UNCHANGED observations
       ELSE /\ pc' = "quick_decide"
            /\ UNCHANGED <<observations, env>>
    /\ UNCHANGED <<ctx, history, decision, response, stageTrace, shortTerm, nRequests,
                   probeVars, chainVars, extraVars>>

QuickDecideRemembers ==
    /\ pc = "quick_decide"
    /\ history' = [has_data |-> FALSE]
    /\ decision' = decide(observations, [has_data |-> FALSE], ctx.platform, nRequests)
    /\ response' = [status |-> "success", decision |-> decision']
    /\ shortTerm' = store(shortTerm, ctx.user_id, observations, decision',
                          context_summary(ctx), nRequests, FALSE).mem
    /\ pc' = "done"
    /\ UNCHANGED <<ctx, observations, stageTrace, env, nRequests,
                   probeVars, chainVars, extraVars>>

\* lines 125-134
QuickDecide ==
    /\ pc = "quick_decide"
    /\ history' = [has_data |-> FALSE]
    /\ decision' = decide(observations, [has_data |-> FALSE], ctx.platform, nRequests)
    /\ response' = [status |-> "success", decision |-> decision']
    /\ pc' = "done"
    /\ UNCHANGED <<ctx, observations, stageTrace, env, shortTerm, nRequests,
                   probeVars, chainVars, extraVars>>

OrchNext ==
    \/ RunStart \/ RunVision \/ RunContent \/ RunUnderstand
    \/ RunReason \/ RunRemember \/ RunReturn
    \/ QuickStart \/ QuickVision \/ QuickContent \/ QuickDecide

\* every step of a request after its start; at most one of them is enabled
OrchProgress ==
    \/ RunVision \/ RunContent \/ RunUnderstand \/ RunReason \/ RunRemember \/ RunReturn
    \/ QuickVision \/ QuickContent \/ QuickDecide

OrchInit ==
    /\ pc = "idle"
    /\ ctx = [user_id |-> "u1", platform |-> NoPlatform, image |-> None, text |-> None]
    /\ observations = EmptyDict
    /\ history = EmptyDict
    /\ decision = NoDecision
    /\ response = NoResponse
    /\ stageTrace = <<>>
    /\ env = EnvInit("none")
    /\ shortTerm = EmptyDict
    /\ nRequests = 0

-----------------------------------------------------------------------------
(* AgentChain (agent_chain.py lines 36-152) *)

MaxSteps == 2

MaxRetry == 2

\* step names are distinct: the k-th step added is named StepName(k)
StepName(k) == <<"vision", "content", "strategy", "report", "audit">>[k]

\* the transform_output functions steps are configured with
Transform(output) == [transformed |-> output]

\* what a step's agent_fn returns when it succeeds on the context it is given
AgentOutput(step, cx) ==
    [produced_by |-> step.name, saw_last_step |-> Get(cx, "_last_step", None)]

InitialContext == [query |-> "How do I grow my followers?"]

\* AgentChain.add_step, lines 53-71
add_step(steps, name, required, retry_count, transform) ==
    Append(steps, [name |-> name, required |-> required,
                   retry_count |-> retry_count, transform |-> transform])

LoopBodyNoBreak(result, cx, step, step_result, stop_on_error) ==
    LET ok == Get(step_result, "success", TRUE)
        withStep == [result EXCEPT !.step_results =
                        Append(@, [step |-> step.name, success |-> ok,
                                   output |-> step_result])]
    IN  IF ~ok
        THEN [result  |-> [withStep EXCEPT
                             !.errors = Append(@, <<step.name, step_result.error>>),
                             !.success = IF step.required /\ stop_on_error
                                         THEN FALSE ELSE @],
              context |-> cx,
              halt    |-> FALSE]
        ELSE [result |-> withStep, context |-> cx, halt |-> FALSE]

LoopBodyHaltsOnAny(result, cx, step, step_result, stop_on_error) ==
    LET ok == Get(step_result, "success", TRUE)
        withStep == [result EXCEPT !.step_results =
                        Append(@, [step |-> step.name, success |-> ok,
                                   output |-> step_result])]
    IN  IF ~ok
        THEN [result  |-> [withStep EXCEPT
                             !.errors = Append(@, <<step.name,
                                            Get(step_result, "error", "Unknown error")>>),
                             !.success = IF stop_on_error THEN FALSE ELSE @],
              context |-> cx,
              halt    |-> stop_on_error]
        ELSE LET raw    == Get(step_result, "output", step_result)
                 output == IF step.transform THEN Transform(raw) ELSE raw
             IN  [result  |-> withStep,
                  context |-> ("_last_output" :> output) @@ ("_last_step" :> step.name)
                              @@ (step.name :> output) @@ cx,
                  halt    |-> FALSE]

LoopBodyMergeRaw(result, cx, step, step_result, stop_on_error) ==
    LET ok == Get(step_result, "success", TRUE)
        withStep == [result EXCEPT !.step_results =
                        Append(@, [step |-> step.name, success |-> ok,
                                   output |-> step_result])]
    IN  IF ~ok
        THEN LET halt == step.required /\ stop_on_error
             IN  [result  |-> [withStep EXCEPT
                                 !.errors = Append(@, <<step.name,
                                                Get(step_result, "error", "Unknown error")>>),
                                 !.success = IF halt THEN FALSE ELSE @],
                  context |-> cx,
                  halt    |-> halt]
        ELSE LET output == Get(step_result, "output", step_result)
             IN  [result  |-> withStep,
                  context |-> ("_last_output" :> output) @@ ("_last_step" :> step.name)
                              @@ (step.name :> output) @@ cx,
                  halt    |-> FALSE]

\* one iteration of the loop of run, lines 98-119, after _execute_step returned
\* step_result; an error message "Step '<name>' failed: <error>" is kept as the
\* pair <<name, error>>
LoopBody(result, cx, step, step_result, stop_on_error) ==
    LET ok == Get(step_result, "success", TRUE)
        withStep == [result EXCEPT !.step_results =
                        Append(@, [step |-> step.name, success |-> ok,
                                   output |-> step_result])]
    IN  IF ~ok
        THEN LET halt == step.required /\ stop_on_error
             IN  [result  |-> [withStep EXCEPT
                                 !.errors = Append(@, <<step.name,
                                                Get(step_result, "error", "Unknown error")>>),
                                 !.success = IF halt THEN FALSE ELSE @],
                  context |-> cx,
                  halt    |-> halt]
        ELSE LET raw    == Get(step_result, "output", step_result)
                 output == IF step.transform THEN Transform(raw) ELSE raw
             IN  [result  |-> withStep,
                  context |-> ("_last_output" :> output) @@ ("_last_step" :> step.name)
                              @@ (step.name :> output) @@ cx,
                  halt    |-> FALSE]

ChainIdle ==
    /\ chainSteps = <<>>
    /\ stopOnError = TRUE
    /\ chainPc = "building"
    /\ stepIdx = 0
    /\ attempt = 0
    /\ lastError = None
    /\ context = EmptyDict
    /\ chainResult = EmptyDict
    /\ invoked = <<>>
    /\ attemptLog = <<>>
    /\ passed = <<>>

\* a caller configures the chain
AddStep ==
    /\ chainPc = "building"
    /\ Len(chainSteps) < MaxSteps
    /\ \E required \in BOOLEAN, retry_count \in 0..MaxRetry, transform \in BOOLEAN :
         chainSteps' = add_step(chainSteps, StepName(Len(chainSteps) + 1),
                                required, retry_count, transform)
    /\ UNCHANGED <<stopOnError, chainPc, stepIdx, attempt, lastError, context,
                   chainResult, invoked, attemptLog, passed, orchVars, probeVars, extraVars>>

\* run is called: lines 83-94; with no step configured it returns at once
ChainRunStart ==
    /\ chainPc = "building"
    /\ \E stop \in BOOLEAN : stopOnError' = stop
    /\ context' = InitialContext
    /\ invoked' = [i \in 1..Len(chainSteps) |-> 0]
    /\ attemptLog' = [i \in 1..Len(chainSteps) |-> <<>>]
    /\ passed' = IF chainSteps = <<>> THEN <<>> ELSE <<InitialContext>>
    /\ stepIdx' = 1
    /\ attempt' = 0
    /\ lastError' = None
    /\ IF chainSteps = <<>>
       THEN /\ chainResult' = [success |-> TRUE, final_output |-> InitialContext,
                               step_results |-> <<>>, errors |-> <<>>]
            /\ chainPc' = "done"
       ELSE /\ chainResult' = [success |-> TRUE, final_output |-> EmptyDict,
                               step_results |-> <<>>, errors |-> <<>>]
            /\ chainPc' = "running"
    /\ UNCHANGED <<chainSteps, orchVars, probeVars, extraVars>>

\* _execute_step has returned step_result for the current step: the rest of the
\* loop iteration, then either the next step or lines 121-124
StepReturns(step_result) ==
    LET r == LoopBody(chainResult, context, chainSteps[stepIdx], step_result, stopOnError)
        last == r.halt \/ stepIdx = Len(chainSteps)
    IN  /\ context' = r.context
        /\ chainResult' = IF last THEN [r.result EXCEPT !.final_output = r.context]
                          ELSE r.result
        /\ chainPc' = IF last THEN "done" ELSE "running"
        /\ stepIdx' = IF last THEN stepIdx ELSE stepIdx + 1
        /\ attempt' = 0
        /\ lastError' = None
        /\ passed' = IF last THEN passed ELSE Append(passed, r.context)

\* lines 145 and 149: a timeout and any other exception both become last_error
NextLastErrorKeepFirst(last_error, err) == IF last_error = None THEN err ELSE last_error

NextLastError(last_error, err) == err

\* line 142
AttemptSucceeded(result) == [success |-> TRUE, output |-> result]

\* line 152
AttemptsExhausted(last_error) == [success |-> FALSE, error |-> last_error]

\* one attempt of _execute_step, lines 135-150: the agent_fn is awaited and
\* returns, times out or raises
ChainAttempt ==
    /\ chainPc = "running"
    /\ attempt < chainSteps[stepIdx].retry_count
    /\ invoked' = [invoked EXCEPT ![stepIdx] = @ + 1]
    /\ \/ LET result == AgentOutput(chainSteps[stepIdx], context)
          IN  /\ attemptLog' = [attemptLog EXCEPT ![stepIdx] =
                                   Append(@, [ok |-> TRUE, output |-> result])]
              /\ StepReturns(AttemptSucceeded(result))
       \/ \E err \in {"Timeout after 30.0s", "agent error"} :
            /\ attemptLog' = [attemptLog EXCEPT ![stepIdx] =
                                 Append(@, [ok |-> FALSE, error |-> err])]
            /\ IF attempt + 1 < chainSteps[stepIdx].retry_count
               THEN /\ attempt' = attempt + 1
                    /\ lastError' = NextLastError(lastError, err)
                    /\ UNCHANGED <<context, chainResult, chainPc, stepIdx, passed>>
               ELSE StepReturns(AttemptsExhausted(NextLastError(lastError, err)))
    /\ UNCHANGED <<chainSteps, stopOnError, orchVars, probeVars, extraVars>>

\* _execute_step with retry_count <= 0: the loop of line 135 has no iteration
\* and line 152 reports the step failed with last_error = None
ChainNoAttempt ==
    /\ chainPc = "running"
    /\ chainSteps[stepIdx].retry_count <= 0
    /\ StepReturns(AttemptsExhausted(lastError))
    /\ UNCHANGED <<chainSteps, stopOnError, invoked, attemptLog, orchVars, probeVars, extraVars>>

ChainNext == AddStep \/ ChainRunStart \/ ChainAttempt \/ ChainNoAttempt

-----------------------------------------------------------------------------
(* ParallelAgentExecutor (agent_chain.py lines 230-303) *)

MaxAgents == 3

\* agents are added under distinct names: the k-th one is named AgentName(k)
AgentName(k) == <<"vision", "content", "analytics", "audience", "timing">>[k]

\* what awaiting an agent's fn does: it returns, it raises, or it is still
\* running when any timeout fires
FnBehaviours == {"returns", "raises", "hangs"}

\* what an agent's fn returns when it returns
FnResult(agent) == [analysis_by |-> agent.name]

\* ParallelAgentExecutor.add, lines 240-252
add(agents, name, fn, weight) == Append(agents, [name |-> name, fn |-> fn, weight |-> weight])

\* execute_agent, lines 261-276, for an fn that ends
execute_agent(agent) ==
    IF agent.fn = "raises"
    THEN [name |-> agent.name, success |-> FALSE, error |-> "agent error",
          weight |-> agent.weight]
    ELSE [name |-> agent.name, success |-> TRUE, result |-> FnResult(agent),
          weight |-> agent.weight]

Pending == [status |-> "pending"]

Cancelled == [status |-> "cancelled"]

Returned(value) == [status |-> "returned", value |-> value]

AfterBranchCancelsOthers(tasks, i, value) ==
    [j \in DOMAIN tasks |->
        IF j = i THEN Returned(value)
        ELSE IF ~value.success /\ tasks[j] = Pending THEN Cancelled
        ELSE tasks[j]]

\* task i ends with `value`: gather(..., return_exceptions=True) over tasks that
\* catch their own exceptions leaves every other task as it is (lines 262-281)
AfterBranch(tasks, i, value) == [tasks EXCEPT ![i] = Returned(value)]

\* the loop of lines 289-295 over results[from..]: the error list
RECURSIVE CombineErrors(_)
CombineErrors(results) ==
    IF results = <<>> THEN <<>>
    ELSE LET r == results[1]
         IN  (IF r.status # "returned" THEN <<<<"CancelledError">>>>
              ELSE IF Flag(r.value, "success") THEN <<>>
              ELSE <<<<r.value.name, Get(r.value, "error", "Unknown error")>>>>)
             \o CombineErrors(Tail(results))

\* the loop of lines 289-295: agent_results, a later task overwriting an
\* earlier one of the same name
CombineResults(results) ==
    LET ok == {i \in DOMAIN results :
                 results[i].status = "returned" /\ Flag(results[i].value, "success")}
        names == {results[i].value.name : i \in ok}
        LastOf(nm) == CHOOSE i \in ok :
                        /\ results[i].value.name = nm
                        /\ \A j \in ok : results[j].value.name = nm => j <= i
    IN  [nm \in names |-> results[LastOf(nm)].value.result]

CombineSuccessIfAny(results, agents_run) ==
    LET agent_results == CombineResults(results)
        errors        == CombineErrors(results)
    IN  [success          |-> (DOMAIN agent_results # {}),
         results          |-> agent_results,
         errors           |-> errors,
         agents_run       |-> agents_run,
         agents_succeeded |-> Cardinality(DOMAIN agent_results)]

\* lines 285-303
Combine(results, agents_run) ==
    LET agent_results == CombineResults(results)
        errors        == CombineErrors(results)
    IN  [success          |-> (Len(errors) = 0),
         results          |-> agent_results,
         errors           |-> errors,
         agents_run       |-> agents_run,
         agents_succeeded |-> Cardinality(DOMAIN agent_results)]

ParIdle ==
    /\ parAgents = <<>>
    /\ parPc = "building"
    /\ branch = <<>>
    /\ completed = <<>>
    /\ parResult = EmptyDict

\* a caller adds an agent
ParAdd ==
    /\ parPc = "building"
    /\ Len(parAgents) < MaxAgents
    /\ \E fn \in FnBehaviours :
         parAgents' = add(parAgents, AgentName(Len(parAgents) + 1), fn, 1)
    /\ UNCHANGED <<parPc, branch, completed, parResult, notParVars>>

\* run is called: line 279 creates one task per agent and line 280 awaits them
ParRunStart ==
    /\ parPc = "building"
    /\ parPc' = "running"
    /\ branch' = [i \in DOMAIN parAgents |-> Pending]
    /\ UNCHANGED <<parAgents, completed, parResult, notParVars>>

\* the fn of task i returns or raises inside execute_agent
ParBranchEnds ==
    /\ parPc = "running"
    /\ \E i \in DOMAIN branch :
         /\ branch[i] = Pending
         /\ parAgents[i].fn # "hangs"
         /\ branch' = AfterBranch(branch, i, execute_agent(parAgents[i]))
         /\ completed' = Append(completed, i)
    /\ UNCHANGED <<parAgents, parPc, parResult, notParVars>>

\* timeout_seconds elapse while gather is still waiting: wait_for cancels the
\* tasks still running and raises TimeoutError, which run does not catch
\* (lines 280-283)
ParTimeout ==
    /\ parPc = "running"
    /\ \E i \in DOMAIN branch : branch[i] = Pending
    /\ branch' = [i \in DOMAIN branch |-> IF branch[i] = Pending THEN Cancelled
                                           ELSE branch[i]]
    /\ parPc' = "raised"
    /\ UNCHANGED <<parAgents, completed, parResult, notParVars>>

\* every task has ended: gather hands back their values in task order and run
\* combines them, lines 285-303
ParCollect ==
    /\ parPc = "running"
    /\ \A i \in DOMAIN branch : branch[i] # Pending
    /\ parResult' = Combine(branch, Len(parAgents))
    /\ parPc' = "done"
    /\ UNCHANGED <<parAgents, branch, completed, notParVars>>

ParNext == ParAdd \/ ParRunStart \/ ParBranchEnds \/ ParTimeout \/ ParCollect

-----------------------------------------------------------------------------
(* AgentRouter (agent_chain.py lines 155-227).  A str is the sequence of its *)
(* characters.                                                              *)

MaxRegistered == 2

\* str.lower on the characters used
LowerChar(c) ==
    CASE c = "G" -> "g" [] c = "P" -> "p" [] c = "O" -> "o" [] c = "S" -> "s"
      [] c = "T" -> "t" [] OTHER -> c

\* str.lower
Lower(str) == [i \in DOMAIN str |-> LowerChar(str[i])]

\* kw in text
IsSubstring(kw, text) ==
    \E k \in 0..(Len(text) - Len(kw)) : SubSeq(text, k + 1, k + Len(kw)) = kw

\* route names; "default", the value detect_intent returns for no match, is not
\* among them
RouteNames == {"growth", "content", "audience"}

\* keyword lists handed to register: ["grow", "fan"], ["Post"], ["fan"],
\* ["row", "ow"]
KeywordLists ==
    { <<<<"g", "r", "o", "w">>, <<"f", "a", "n">>>>,
      <<<<"P", "o", "s", "t">>>>,
      <<<<"f", "a", "n">>>>,
      <<<<"r", "o", "w">>, <<"o", "w">>>> }

Priorities == {0, 1}

\* queries: "Grow", "grow fan", "post", "POST fan", "hi", ""
Queries ==
    { <<"G", "r", "o", "w">>,
      <<"g", "r", "o", "w", " ", "f", "a", "n">>,
      <<"p", "o", "s", "t">>,
      <<"P", "O", "S", "T", " ", "f", "a", "n">>,
      <<"h", "i">>,
      <<>> }

\* the position of `name` among the keys of routes, 0 when it is not a key
IndexOf(rts, name) ==
    IF \E i \in DOMAIN rts : rts[i].name = name
    THEN CHOOSE i \in DOMAIN rts : rts[i].name = name
    ELSE 0

\* AgentRouter.register, lines 170-183: assigning to an existing key keeps the
\* key's position in the dict.  `given` remembers the keywords as handed in.
register(rts, name, keywords, priority) ==
    LET entry == [name     |-> name,
                  fn       |-> name,
                  keywords |-> [k \in DOMAIN keywords |-> Lower(keywords[k])],
                  priority |-> priority,
                  given    |-> keywords]
        i == IndexOf(rts, name)
    IN  IF i = 0 THEN Append(rts, entry) ELSE [rts EXCEPT ![i] = entry]

\* line 196
KeywordScore(route, query_lower) ==
    Cardinality({k \in DOMAIN route.keywords : IsSubstring(route.keywords[k], query_lower)})

\* the list `matches` of lines 194-198, as (name, score, priority) records
Matches(rts, query_lower) ==
    LET scored == [i \in DOMAIN rts |->
                     [name     |-> rts[i].name,
                      score    |-> KeywordScore(rts[i], query_lower),
                      priority |-> rts[i].priority]]
    IN  SelectSeq(scored, LAMBDA x : x.score > 0)

DetectPriorityFirst(rts, query) ==
    LET matches == Matches(rts, Lower(query))
        Above(a, b) == \/ a.priority > b.priority
                       \/ a.priority = b.priority /\ a.score > b.score
    IN  IF matches # <<>>
        THEN matches[CHOOSE i \in DOMAIN matches :
                        \A j \in DOMAIN matches :
                           \/ Above(matches[i], matches[j])
                           \/ ~Above(matches[j], matches[i]) /\ i <= j].name
        ELSE "default"

\* AgentRouter.detect_intent, lines 190-205: the stable sort with reverse=True
\* puts first the earliest of the matches with the greatest (score, priority)
detect_intent(rts, query) ==
    LET matches == Matches(rts, Lower(query))
        Above(a, b) == \/ a.score > b.score
                       \/ a.score = b.score /\ a.priority > b.priority
    IN  IF matches # <<>>
        THEN matches[CHOOSE i \in DOMAIN matches :
                        \A j \in DOMAIN matches :
                           \/ Above(matches[i], matches[j])
                           \/ ~Above(matches[j], matches[i]) /\ i <= j].name
        ELSE "default"

\* what an agent function returns when the router awaits it
RouteResult(fn, query) == [success |-> TRUE, handled_by |-> fn, query |-> query]

RouteIgnoresDefault(rts, default_agent, query) ==
    LET intent == detect_intent(rts, query)
    IN  IF IndexOf(rts, intent) # 0
        THEN [query |-> query, intent |-> intent, awaited |-> rts[IndexOf(rts, intent)].fn,
              result |-> RouteResult(rts[IndexOf(rts, intent)].fn, query)]
        ELSE [query |-> query, intent |-> intent, awaited |-> None,
              result |-> [success |-> FALSE, error |-> "No matching agent found",
                          detected_intent |-> intent]]

\* AgentRouter.route, lines 207-227; `awaited` is the function it awaited
route(rts, default_agent, query) ==
    LET intent == detect_intent(rts, query)
    IN  IF intent = "default" /\ default_agent # None
        THEN [query |-> query, intent |-> intent, awaited |-> default_agent,
              result |-> RouteResult(default_agent, query)]
        ELSE IF IndexOf(rts, intent) # 0
        THEN [query |-> query, intent |-> intent, awaited |-> rts[IndexOf(rts, intent)].fn,
              result |-> RouteResult(rts[IndexOf(rts, intent)].fn, query)]
        ELSE [query |-> query, intent |-> intent, awaited |-> None,
              result |-> [success |-> FALSE, error |-> "No matching agent found",
                          detected_intent |-> intent]]

NotRouted == EmptyDict

RouterIdle ==
    /\ routes = <<>>
    /\ defaultAgent = None
    /\ nRegistered = 0
    /\ routed = NotRouted

\* a caller registers an agent
RouterRegister ==
    /\ routed = NotRouted
    /\ nRegistered < MaxRegistered
    /\ \E name \in RouteNames, keywords \in KeywordLists, priority \in Priorities :
         routes' = register(routes, name, keywords, priority)
    /\ nRegistered' = nRegistered + 1
    /\ UNCHANGED <<defaultAgent, routed, notRouterVars>>

\* AgentRouter.set_default, lines 185-188
RouterSetDefault ==
    /\ routed = NotRouted
    /\ defaultAgent = None
    /\ defaultAgent' = "default_agent"
    /\ UNCHANGED <<routes, nRegistered, routed, notRouterVars>>

\* a caller awaits route(query, context)
RouterRoute ==
    /\ routed = NotRouted
    /\ \E query \in Queries : routed' = route(routes, defaultAgent, query)
    /\ UNCHANGED <<routes, defaultAgent, nRegistered, notRouterVars>>

RouterNext == RouterRegister \/ RouterSetDefault \/ RouterRoute

\* a caller registers an agent under any name: register (lines 170-183) takes
\* every str, "default" included
RouterRegisterAny ==
    /\ routed = NotRouted
    /\ nRegistered < MaxRegistered
    /\ \E name \in RouteNames \cup {"default"}, keywords \in KeywordLists,
          priority \in Priorities :
         routes' = register(routes, name, keywords, priority)
    /\ nRegistered' = nRegistered + 1
    /\ UNCHANGED <<defaultAgent, routed, notRouterVars>>

RouterNextAny == RouterRegisterAny \/ RouterSetDefault \/ RouterRoute

-----------------------------------------------------------------------------
(* AgentMemory called directly (memory.py lines 28-106) *)

MaxStores == 60

MemUsers == {"u1", "u2"}

\* the limits recall is called with
RecallLimits == {0, 1, 10, 50, 60}

MemObservation == [vision |-> [analyzed |-> TRUE, risk |-> "High"]]

MemDecision == [advice |-> <<"Add a face to the image">>, confidence |-> "Low"]

\* the entry the n-th store call for a user builds, lines 37-42
MemEntry(n) ==
    [timestamp   |-> n,
     observation |-> MemObservation,
     decision    |-> MemDecision,
     context     |-> <<"unknown", "image only">>]

AfterAccessRotates(mem, user_id) ==
    IF user_id \in DOMAIN mem /\ Len(mem[user_id]) > 1
    THEN [mem EXCEPT ![user_id] = <<@[Len(@)]>> \o SubSeq(@, 1, Len(@) - 1)]
    ELSE mem

\* _short_term after recall or get_patterns: neither assigns to it, recall
\* returns a slice (lines 69-71) and get_patterns only reads (lines 79-98)
AfterAccess(mem, user_id) == mem

NotRecalled == EmptyDict

MemIdle ==
    /\ nStored = [u \in MemUsers |-> 0]
    /\ recalled = NotRecalled

\* a caller stores an entry for a user
MemStore ==
    /\ \E u \in MemUsers, persistRaises \in BOOLEAN :
         /\ nStored[u] < MaxStores
         /\ shortTerm' = store(shortTerm, u, MemObservation, MemDecision,
                               <<"unknown", "image only">>, nStored[u] + 1,
                               persistRaises).mem
         /\ nStored' = [nStored EXCEPT ![u] = @ + 1]
    /\ recalled' = NotRecalled
    /\ UNCHANGED notMemVars

\* a caller calls recall(user_id, limit)
MemRecall ==
    /\ \E u \in MemUsers, k \in RecallLimits :
         /\ recalled' = [op |-> "recall", user_id |-> u, limit |-> k,
                         value |-> recall(shortTerm, u, k)]
         /\ shortTerm' = AfterAccess(shortTerm, u)
    /\ UNCHANGED <<nStored, notMemVars>>

\* a caller calls get_patterns(user_id)
MemPatterns ==
    /\ \E u \in MemUsers :
         /\ recalled' = [op |-> "get_patterns", user_id |-> u,
                         value |-> get_patterns(shortTerm, u)]
         /\ shortTerm' = AfterAccess(shortTerm, u)
    /\ UNCHANGED <<nStored, notMemVars>>

MemNext == MemStore \/ MemRecall \/ MemPatterns

-----------------------------------------------------------------------------
(* AnalysisEngine.trend_analysis (analysis_engine.py lines 37-100).        *)
(* A post is [created_at, engagement]; created_at is the number of its     *)
(* calendar day (the date_key of lines 51-57), 0 for a post without one.   *)
(* Means are exact                                                         *)
(* rationals; the engagements drawn are small integers with one or two     *)
(* posts a day, for which every mean the code computes is an exact float.  *)

MaxDays == 7

RECURSIVE ProdSeq(_)
ProdSeq(lst) == IF lst = <<>> THEN 1 ELSE lst[1] * ProdSeq(Tail(lst))

\* the engagements posted on one day
DayLists == { <<0>>, <<90>>, <<100>>, <<100, 120>> }

\* content_data with the posts of day 1, day 2, ...; some without created_at
PostsOf(lists, undated) ==
    Flatten([d \in DOMAIN lists |->
               [i \in DOMAIN lists[d] |->
                  [created_at |-> IF d \in undated THEN 0 ELSE d,
                   engagement |-> lists[d][i]]]])

\* the argument `days`
WindowArgs == {30, 3}

\* the shapes of the drawn inputs: the number of days holding posts, the days
\* whose posts have no created_at, and the argument
TrendCases ==
    { [n |-> n, undated |-> {}, days |-> w] :
        n \in (MaxDays - 1)..MaxDays, w \in WindowArgs }
    \cup { [n |-> n, undated |-> {1}, days |-> 30] : n \in (MaxDays - 1)..MaxDays }
    \cup { [n |-> n, undated |-> {}, days |-> 30] : n \in 0..2 }

TrendStrictFromSix(content_data, days) ==
    IF content_data = <<>> THEN [mock |-> TRUE]
    ELSE
    LET dated  == SelectSeq(content_data, LAMBDA p : p.created_at # 0)
        keys   == {dated[i].created_at : i \in DOMAIN dated}
        window == {k \in keys : Cardinality({j \in keys : j > k}) < days}
        n      == Cardinality(window)
        dates  == [i \in 1..n |-> CHOOSE k \in window :
                                     Cardinality({j \in window : j < k}) = i - 1]
        OnDay(k) == SelectSeq(dated, LAMBDA p : p.created_at = k)
        counts == [i \in 1..n |-> Len(OnDay(dates[i]))]
        K      == ProdSeq(counts)
        values == [i \in 1..n |->
                     (SumSeq([j \in DOMAIN OnDay(dates[i]) |-> OnDay(dates[i])[j].engagement])
                        * K) \div counts[i]]
        h      == n \div 2
        F      == SumSeq(SubSeq(values, 1, h))
        S      == SumSeq(SubSeq(values, h + 1, n))
        up     == S * h - F * (n - h)
    IN  IF n >= 6 /\ F > 0
        THEN [trend_direction |-> IF 10 * up > F * (n - h) THEN "increasing"
                                  ELSE IF 10 * up < 0 - F * (n - h) THEN "decreasing"
                                  ELSE "stable",
              change |-> <<100 * up, F * (n - h)>>,
              analysis_period_days |-> n]
        ELSE [trend_direction |-> "stable", change |-> <<0, 1>>,
              analysis_period_days |-> n]

\* trend_analysis(days): the direction, the change in percent before rounding
\* as the fraction <<numerator, denominator>>, and the length of the window.
\* With K the product of the posts-per-day counts, values[i] is K times the
\* mean of day i, F is K * h * first_half and S is K * (n - h) * second_half, so
\*   change_percent > 10  <=>  10 * (S * h - F * (n - h)) > F * (n - h).
\* graph_data, average_engagement, peak_day and insight are left out.
trend_analysis(content_data, days) ==
    IF content_data = <<>> THEN [mock |-> TRUE]
    ELSE
    LET dated  == SelectSeq(content_data, LAMBDA p : p.created_at # 0)
        keys   == {dated[i].created_at : i \in DOMAIN dated}
        window == {k \in keys : Cardinality({j \in keys : j > k}) < days}
        n      == Cardinality(window)
        dates  == [i \in 1..n |-> CHOOSE k \in window :
                                     Cardinality({j \in window : j < k}) = i - 1]
        OnDay(k) == SelectSeq(dated, LAMBDA p : p.created_at = k)
        counts == [i \in 1..n |-> Len(OnDay(dates[i]))]
        K      == ProdSeq(counts)
        values == [i \in 1..n |->
                     (SumSeq([j \in DOMAIN OnDay(dates[i]) |-> OnDay(dates[i])[j].engagement])
                        * K) \div counts[i]]
        h      == n \div 2
        F      == SumSeq(SubSeq(values, 1, h))
        S      == SumSeq(SubSeq(values, h + 1, n))
        up     == S * h - F * (n - h)
    IN  IF n >= 7 /\ F > 0
        THEN [trend_direction |-> IF 10 * up > F * (n - h) THEN "increasing"
                                  ELSE IF 10 * up < 0 - F * (n - h) THEN "decreasing"
                                  ELSE "stable",
              change |-> <<100 * up, F * (n - h)>>,
              analysis_period_days |-> n]
        ELSE [trend_direction |-> "stable", change |-> <<0, 1>>,
              analysis_period_days |-> n]

NoTrend == EmptyDict

\* AnalysisEngine(content_data).trend_analysis(days)
TrendApply ==
    /\ tOut = NoTrend
    /\ tIn # EmptyDict
    /\ tOut' = trend_analysis(tIn.data, tIn.days)
    /\ UNCHANGED <<tIn, drafts, patternRows, analysis, prevAnalysis, notSvcVars>>

-----------------------------------------------------------------------------
(* IntelligenceService (intelligence_service.py).  A content item is what   *)
(* get_user_content_with_performance builds (lines 35-42): engagement,      *)
(* platform, text, created_at; `kind` stands for the draft's ai_analysis by *)
(* the content type lines 68-72 derive from it, and the text is kept as its *)
(* length and whether it holds an emoji and a question mark.  A pattern is  *)
(* a ContentPattern without id, pattern_data and timestamps; its confidence *)
(* is in 120ths, its multiplier in hundredths, and its explanation is kept  *)
(* as the parts the f-string is built from.                                 *)

MaxContent == 5

MaxRuns == 2

ContentItems ==
    { [engagement |-> 0, platform |-> "twitter", kind |-> "text_only",
       text |-> [length |-> 200, emoji |-> FALSE, question |-> TRUE],
       created_at |-> [hour |-> 9, day |-> "monday"]],
      [engagement |-> 10, platform |-> "instagram", kind |-> "with_face",
       text |-> [length |-> 90, emoji |-> TRUE, question |-> TRUE],
       created_at |-> [hour |-> 20, day |-> "friday"]],
      [engagement |-> 4, platform |-> "instagram", kind |-> "with_visual",
       text |-> [length |-> 300, emoji |-> FALSE, question |-> FALSE],
       created_at |-> [hour |-> 9, day |-> "friday"]] }

\* round(num / den, 2) in hundredths, for num >= 0 and den > 0
Round2(num, den) ==
    LET q == (100 * num) \div den
        r == (100 * num) % den
    IN  IF 2 * r > den \/ (2 * r = den /\ q % 2 = 1) THEN q + 1 ELSE q

\* round(avg_engagement / max(overall_avg, 1), 2) for a group of sum gsum and
\* size gn, inside content of sum total and size n
Multiplier(gsum, gn, total, n) ==
    IF total > n THEN Round2(gsum * n, gn * total) ELSE Round2(gsum, gn)

\* min(count / c, 1.0), in 120ths
Confidence(count, c) == Min((120 * count) \div c, 120)

\* the defaultdict(list) a detector fills: one [key, engagements] per key, in
\* the order the keys were first appended to; KeysOf gives the keys an item
\* is appended under, in order
GroupsOf(items, KeysOf(_)) ==
    WithValue(Dedupe(Flatten([i \in DOMAIN items |-> KeysOf(items[i])])), LAMBDA keys :
        [k \in DOMAIN keys |->
            LET members == SelectSeq(items, LAMBDA it : keys[k] \in SeqToSet(KeysOf(it)))
            IN  [key |-> keys[k],
                 engagements |-> [i \in DOMAIN members |-> members[i].engagement]]])

NoPattern == [pattern_type |-> "none"]

Emitted(candidates) == SelectSeq(candidates, LAMBDA x : x.pattern_type # "none")

\* lines 50-106
detect_content_type_patterns(content_data) ==
    LET groups == GroupsOf(content_data, LAMBDA it : <<it.kind>>)
        total  == SumSeq([i \in DOMAIN content_data |-> content_data[i].engagement])
        n      == Len(content_data)
        For(g) ==
            LET m == Multiplier(SumSeq(g.engagements), Len(g.engagements), total, n)
            IN  IF Len(g.engagements) >= 2 /\ (m > 120 \/ m < 80)
                THEN [pattern_type |-> "content_type", platform |-> "all",
                      confidence_score |-> Confidence(Len(g.engagements), 10),
                      sample_size |-> Len(g.engagements),
                      performance_multiplier |-> m,
                      explanation |-> [subject |-> g.key, multiplier |-> m,
                                       wording |-> IF m > 100 THEN "perform better"
                                                   ELSE "underperform"]]
                ELSE NoPattern
    IN  IF content_data = <<>> THEN <<>>
        ELSE Emitted([k \in DOMAIN groups |-> For(groups[k])])

\* the first group of `groups` with the highest mean among those of 2 or more
\* samples (sorted(..., reverse=True)[0]), or <<>> when there is none
BestGroup(groups) ==
    LET avgs == SelectSeq(groups, LAMBDA g : Len(g.engagements) >= 2)
        Higher(a, b) == SumSeq(a.engagements) * Len(b.engagements)
                          > SumSeq(b.engagements) * Len(a.engagements)
    IN  IF avgs = <<>> THEN <<>>
        ELSE <<avgs[CHOOSE i \in DOMAIN avgs :
                      /\ \A j \in DOMAIN avgs : ~Higher(avgs[j], avgs[i])
                      /\ \A j \in 1..(i - 1) : Higher(avgs[i], avgs[j])]>>

TimeCountsBestGroupOnly(content_data) ==
    LET total == SumSeq([i \in DOMAIN content_data |-> content_data[i].engagement])
        n     == Len(content_data)
        dated == content_data
        For(type, groups, c, wording) ==
            IF BestGroup(groups) = <<>> THEN <<>>
            ELSE LET top == BestGroup(groups)[1]
                     m   == Multiplier(SumSeq(top.engagements), Len(top.engagements), total, n)
                 IN  IF m > 120
                     THEN <<[pattern_type |-> type, platform |-> "all",
                             confidence_score |-> Confidence(Len(top.engagements), c),
                             sample_size |-> n,
                             performance_multiplier |-> m,
                             explanation |-> [subject |-> top.key, multiplier |-> m,
                                              wording |-> wording]]>>
                     ELSE <<>>
    IN  For("posting_time", GroupsOf(dated, LAMBDA it : <<it.created_at.hour>>), 20,
            "perform better")
        \o For("posting_day", GroupsOf(dated, LAMBDA it : <<it.created_at.day>>), 15,
               "perform better than average")

\* lines 108-186; created_at is a non-null column with a default
\* (models/content.py line 35), so `if created_at` holds for every item
detect_posting_time_patterns(content_data) ==
    LET total == SumSeq([i \in DOMAIN content_data |-> content_data[i].engagement])
        n     == Len(content_data)
        dated == content_data
        For(type, groups, c, wording) ==
            IF BestGroup(groups) = <<>> THEN <<>>
            ELSE LET top == BestGroup(groups)[1]
                     m   == Multiplier(SumSeq(top.engagements), Len(top.engagements), total, n)
                 IN  IF m > 120
                     THEN <<[pattern_type |-> type, platform |-> "all",
                             confidence_score |->
                                 Confidence(SumSeq([k \in DOMAIN groups |->
                                                      Len(groups[k].engagements)]), c),
                             sample_size |-> n,
                             performance_multiplier |-> m,
                             explanation |-> [subject |-> top.key, multiplier |-> m,
                                              wording |-> wording]]>>
                     ELSE <<>>
    IN  For("posting_time", GroupsOf(dated, LAMBDA it : <<it.created_at.hour>>), 20,
            "perform better")
        \o For("posting_day", GroupsOf(dated, LAMBDA it : <<it.created_at.day>>), 15,
               "perform better than average")

\* the caption_groups keys of one item, lines 205-223
CaptionKeys(it) ==
    <<IF it.text.length <= 100 THEN "length_short"
      ELSE IF it.text.length <= 280 THEN "length_medium"
      ELSE "length_long">>
    \o <<IF it.text.emoji THEN "with_emoji" ELSE "no_emoji">>
    \o (IF it.text.question THEN <<"with_question">> ELSE <<>>)

\* lines 188-255
detect_caption_patterns(content_data) ==
    LET groups == GroupsOf(content_data, CaptionKeys)
        total  == SumSeq([i \in DOMAIN content_data |-> content_data[i].engagement])
        n      == Len(content_data)
        For(g) ==
            LET m == Multiplier(SumSeq(g.engagements), Len(g.engagements), total, n)
            IN  IF Len(g.engagements) >= 2 /\ (m > 130 \/ m < 70)
                THEN [pattern_type |-> "caption_structure", platform |-> "all",
                      confidence_score |-> Confidence(Len(g.engagements), 8),
                      sample_size |-> Len(g.engagements),
                      performance_multiplier |-> m,
                      explanation |-> [subject |-> g.key, multiplier |-> m,
                                       wording |-> IF m > 100 THEN "drive more engagement"
                                                   ELSE "below average"]]
                ELSE NoPattern
    IN  IF content_data = <<>> THEN <<>>
        ELSE Emitted([k \in DOMAIN groups |-> For(groups[k])])

\* lines 257-297.  With n items of sum S and sum of squares Q,
\*   stdev ** 2 = (n * Q - S * S) / (n * (n - 1)), so
\*   std_dev > avg_eng * 0.5  <=>  4 * n * (n * Q - S * S) > (n - 1) * S * S
\* and 100 * (avg_eng + std_dev) / max(avg_eng, 1) = (100 * S + sqrt(R)) / D with
\*   R = 10000 * n * (n * Q - S * S) / (n - 1), D = S if avg_eng >= 1, else n;
\* the multiplier is the k with (2k - 1) * D - 200 * S <= 2 * sqrt(R) < (2k + 1) * D - 200 * S
detect_velocity_patterns(content_data) ==
    LET n  == Len(content_data)
        S  == SumSeq([i \in DOMAIN content_data |-> content_data[i].engagement])
        Q  == SumSeq([i \in DOMAIN content_data |->
                        content_data[i].engagement * content_data[i].engagement])
        D  == IF S >= n THEN S ELSE n
        R4 == 40000 * n * (n * Q - S * S)
        m  == CHOOSE k \in 0..(100 * (n + 2)) :
                LET lo == (2 * k - 1) * D - 200 * S
                    hi == (2 * k + 1) * D - 200 * S
                IN  /\ (lo <= 0 \/ lo * lo * (n - 1) <= R4)
                    /\ hi > 0 /\ R4 < hi * hi * (n - 1)
    IN  IF n < 5 THEN <<>>
        ELSE IF 4 * n * (n * Q - S * S) > (n - 1) * S * S
        THEN <<[pattern_type |-> "engagement_velocity", platform |-> "all",
                confidence_score |-> Confidence(n, 10),
                sample_size |-> n,
                performance_multiplier |-> m,
                explanation |-> [subject |-> "top-performing posts", multiplier |-> m,
                                 wording |-> "focus on replicating those patterns"]]>>
        ELSE <<>>

PlatformNeedsTwoQualifying(content_data) ==
    LET groups == GroupsOf(content_data, LAMBDA it : <<it.platform>>)
        total  == SumSeq([i \in DOMAIN content_data |-> content_data[i].engagement])
        n      == Len(content_data)
        avgs   == SelectSeq(groups, LAMBDA g : Len(g.engagements) >= 2)
    IN  IF Len(avgs) < 2 THEN <<>>
        ELSE LET best == BestGroup(groups)[1]
                 m    == Multiplier(SumSeq(best.engagements), Len(best.engagements), total, n)
             IN  <<[pattern_type |-> "platform_performance", platform |-> best.key,
                    confidence_score |-> Confidence(n, 15),
                    sample_size |-> n,
                    performance_multiplier |-> m,
                    explanation |-> [subject |-> best.key, multiplier |-> m,
                                     wording |-> "is your best-performing platform"]]>>

\* lines 299-347; max(...) returns the first platform with the highest mean
detect_platform_patterns(content_data) ==
    LET groups == GroupsOf(content_data, LAMBDA it : <<it.platform>>)
        total  == SumSeq([i \in DOMAIN content_data |-> content_data[i].engagement])
        n      == Len(content_data)
    IN  IF Len(groups) < 2 \/ BestGroup(groups) = <<>> THEN <<>>
        ELSE LET best == BestGroup(groups)[1]
                 m    == Multiplier(SumSeq(best.engagements), Len(best.engagements), total, n)
             IN  <<[pattern_type |-> "platform_performance", platform |-> best.key,
                    confidence_score |-> Confidence(n, 15),
                    sample_size |-> n,
                    performance_multiplier |-> m,
                    explanation |-> [subject |-> best.key, multiplier |-> m,
                                     wording |-> "is your best-performing platform"]]>>

StoreAlwaysAdds(all_patterns, rows, refs) ==
    [rows |-> rows \o all_patterns,
     refs |-> refs \o [i \in DOMAIN all_patterns |-> Len(rows) + i]]

\* the loop of lines 379-401 over the patterns left, given the rows of the
\* user so far and the rows already put in stored_patterns (by their index):
\* the session autoflushes before each select, so a row added earlier in this
\* loop is found by the lookup of a later pattern of the same type and platform
RECURSIVE StorePatterns(_, _, _)
StorePatterns(all_patterns, rows, refs) ==
    IF all_patterns = <<>> THEN [rows |-> rows, refs |-> refs]
    ELSE LET p     == all_patterns[1]
             match == {i \in DOMAIN rows : /\ rows[i].pattern_type = p.pattern_type
                                           /\ rows[i].platform = p.platform}
         IN  IF match # {}
             THEN LET existing == CHOOSE i \in match : \A j \in match : i <= j
                  IN  StorePatterns(Tail(all_patterns), [rows EXCEPT ![existing] = p],
                                    Append(refs, existing))
             ELSE StorePatterns(Tail(all_patterns), Append(rows, p),
                                Append(refs, Len(rows) + 1))

\* all_patterns, lines 368-375: what the five detectors emit, in order
DetectAll(content_data) ==
    detect_content_type_patterns(content_data)
      \o detect_posting_time_patterns(content_data)
      \o detect_caption_patterns(content_data)
      \o detect_velocity_patterns(content_data)
      \o detect_platform_patterns(content_data)

\* run_full_analysis, lines 353-415: the rows after the commit and the dict
\* returned (its recommendations left out); _pattern_to_dict reads each stored
\* row after the loop has ended
run_full_analysis(content_data, rows) ==
    IF content_data = <<>>
    THEN [rows |-> rows,
          result |-> [status |-> "insufficient_data", patterns |-> <<>>]]
    ELSE WithValue(StorePatterns(DetectAll(content_data), rows, <<>>), LAMBDA st :
           [rows |-> st.rows,
            result |-> [status |-> "success",
                        patterns_detected |-> Len(st.refs),
                        patterns |-> [i \in DOMAIN st.refs |-> st.rows[st.refs[i]]],
                        content_analyzed |-> Len(content_data)]])

NotAnalysed == [runs |-> 0]

SvcIdle ==
    /\ tIn = EmptyDict
    /\ tOut = NoTrend
    /\ drafts = <<>>
    /\ patternRows = <<>>
    /\ analysis = NotAnalysed
    /\ prevAnalysis = NotAnalysed

\* a draft of the user gets its first performance record
AddContent ==
    /\ Len(drafts) < MaxContent
    /\ \E it \in ContentItems : drafts' = Append(drafts, it)
    /\ UNCHANGED <<tIn, tOut, patternRows, analysis, prevAnalysis, notSvcVars>>

\* POST /analyze/{user_id}: IntelligenceService(db, user_id).run_full_analysis()
RunFullAnalysis ==
    /\ analysis.runs < MaxRuns
    /\ LET r == run_full_analysis(drafts, patternRows)
       IN  /\ patternRows' = r.rows
           /\ analysis' = [runs |-> analysis.runs + 1,
                           history |-> drafts,
                           detected |-> DetectAll(drafts),
                           rows_before |-> Len(patternRows),
                           rows_after |-> Len(r.rows),
                           result |-> r.result]
    /\ prevAnalysis' = analysis
    /\ UNCHANGED <<tIn, tOut, drafts, notSvcVars>>

IntelNext == AddContent \/ RunFullAnalysis

-----------------------------------------------------------------------------
(* ParallelAgentExecutor.run with agents added under any name and fns that  *)
(* read and write the dict they are handed (agent_chain.py lines 240-303).  *)
(* Line 263 passes the caller's `context` object itself to every fn.        *)

\* besides FnBehaviours: "writes" sets context[<its agent's name>] and returns
FnBehavioursAny == FnBehaviours \cup {"writes"}

\* the dict after the fn of `agent` ran on it
FnWrites(agent, cx) == IF agent.fn = "writes" THEN (agent.name :> TRUE) @@ cx ELSE cx

\* what the fn returns when it returns: the keys it found in the dict it was handed
FnResultOn(agent, cx) == [analysis_by |-> agent.name, context_keys |-> DOMAIN cx]

\* execute_agent, lines 261-276, for an fn that ends, run on the dict cx
execute_agent_on(agent, cx) ==
    IF agent.fn = "raises" THEN execute_agent(agent)
    ELSE [execute_agent(agent) EXCEPT !.result = FnResultOn(agent, cx)]

\* a caller adds an agent: add (lines 240-252) appends whatever name it is given
ParAddAny ==
    /\ parPc = "building"
    /\ Len(parAgents) < MaxAgents
    /\ \E name \in {AgentName(1), AgentName(Len(parAgents) + 1)}, fn \in FnBehavioursAny :
         parAgents' = add(parAgents, name, fn, 1)
    /\ UNCHANGED <<parPc, branch, completed, parResult, notParVars>>

\* the fn of task i runs on the shared dict and returns or raises inside
\* execute_agent
ParBranchRuns ==
    /\ parPc = "running"
    /\ \E i \in DOMAIN branch :
         /\ branch[i] = Pending
         /\ parAgents[i].fn # "hangs"
         /\ branch' = AfterBranch(branch, i, execute_agent_on(parAgents[i], parContext))
         /\ parContext' = FnWrites(parAgents[i], parContext)
         /\ completed' = Append(completed, i)
    /\ UNCHANGED <<parAgents, parPc, parResult, orchVars, probeVars, chainVars,
                   routerVars, memVars, svcVars, reqs, kvVars>>

ParNextAny == ParAddAny \/ ParRunStart \/ ParBranchRuns \/ ParTimeout \/ ParCollect

-----------------------------------------------------------------------------
(* OrchestratorAgent.run called for several requests on one event loop      *)
(* (orchestrator.py lines 37-108; every caller awaits it from async code).  *)
(* A request gives up the loop only at the awaits of lines 57 and 66;       *)
(* fetch_user_patterns, decide, store and get_patterns are plain calls, so  *)
(* lines 75-108 run without interruption.  reqs[r] is the r-th request to   *)
(* arrive; all requests are for user "u1".                                  *)

MaxConcurrent == 2

ConContexts == {c \in Contexts : c.platform = NoPlatform /\ c.text # "  "}

ConVisionResults == {v \in OrchVisionResults : v.analyzed => v.risk = "High"}

ConContentResults == {c \in OrchContentResults : c.score = 90}

ConHistories == {<<>>, <<Post(100), Post(105)>>}

NoRequest ==
    [pc |-> "idle",
     ctx |-> [user_id |-> "u1", platform |-> NoPlatform, image |-> None, text |-> None],
     observations |-> EmptyDict, history |-> EmptyDict,
     decision |-> NoDecision, response |-> NoResponse]

\* the await of a capability ended with an exception
CapabilityRaised == [raised |-> TRUE]

\* datetime.utcnow() of strategy_agent.py line 115 and memory.py line 38:
\* later for every request that ends later
ConClock == Cardinality({r \in DOMAIN reqs : reqs[r].pc = "done"}) + 1

ConRestReadsLatest(r, rq) ==
    \E stored \in ConHistories :
        LET latest == IF \E q \in DOMAIN reqs : q # r /\ reqs[q].pc \notin {"idle", "done"}
                      THEN reqs[CHOOSE q \in DOMAIN reqs :
                                  q # r /\ reqs[q].pc \notin {"idle", "done"}].observations
                      ELSE rq.observations
            hist == fetch_user_patterns(FALSE, stored)
            dec  == decide(latest, hist, rq.ctx.platform, ConClock)
            mem  == store(shortTerm, rq.ctx.user_id, rq.observations, dec,
                          context_summary(rq.ctx), ConClock, FALSE).mem
        IN  /\ shortTerm' = mem
            /\ reqs' = [reqs EXCEPT ![r] =
                          [rq EXCEPT !.pc = "done", !.history = hist, !.decision = dec,
                                     !.response =
                                        [status          |-> "success",
                                         user_id         |-> rq.ctx.user_id,
                                         platform        |-> rq.ctx.platform,
                                         observations    |-> ObservationSummary(rq.observations),
                                         decision        |-> dec,
                                         memory_patterns |-> get_patterns(mem, rq.ctx.user_id)]]]

\* lines 75-108 for request r, whose locals are rq: UNDERSTAND, REASON,
\* REMEMBER and RETURN
ConRest(r, rq) ==
    \E stored \in ConHistories :
        LET hist == fetch_user_patterns(FALSE, stored)
            dec  == decide(rq.observations, hist, rq.ctx.platform, ConClock)
            mem  == store(shortTerm, rq.ctx.user_id, rq.observations, dec,
                          context_summary(rq.ctx), ConClock, FALSE).mem
        IN  /\ shortTerm' = mem
            /\ reqs' = [reqs EXCEPT ![r] =
                          [rq EXCEPT !.pc = "done", !.history = hist, !.decision = dec,
                                     !.response =
                                        [status          |-> "success",
                                         user_id         |-> rq.ctx.user_id,
                                         platform        |-> rq.ctx.platform,
                                         observations    |-> ObservationSummary(rq.observations),
                                         decision        |-> dec,
                                         memory_patterns |-> get_patterns(mem, rq.ctx.user_id)]]]

\* a caller awaits orchestrator.run(ctx) while earlier requests are in flight
ConStart ==
    /\ \E r \in DOMAIN reqs :
         /\ reqs[r].pc = "idle"
         /\ \A q \in 1..(r - 1) : reqs[q].pc # "idle"
         /\ \E c \in ConContexts :
              IF has_image(c)
              THEN /\ reqs' = [reqs EXCEPT ![r] = [NoRequest EXCEPT !.ctx = c,
                                                                    !.pc = "await_vision"]]
                   /\ UNCHANGED shortTerm
              ELSE IF has_text(c)
              THEN /\ reqs' = [reqs EXCEPT ![r] = [NoRequest EXCEPT !.ctx = c,
                                                                    !.pc = "await_content"]]
                   /\ UNCHANGED shortTerm
              ELSE ConRest(r, [NoRequest EXCEPT !.ctx = c])
    /\ UNCHANGED <<parContext, kvVars, notConVars>>

\* the await of line 57 ends for one request: the capability returned or raised
ConVisionEnds ==
    /\ \E r \in DOMAIN reqs :
         /\ reqs[r].pc = "await_vision"
         /\ \E v \in ConVisionResults \cup {CapabilityRaised} :
              LET obs == IF v = CapabilityRaised THEN RecordFailure(reqs[r].observations, "vision")
                         ELSE ("vision" :> v) @@ reqs[r].observations
              IN  IF has_text(reqs[r].ctx)
                  THEN /\ reqs' = [reqs EXCEPT ![r] = [@ EXCEPT !.pc = "await_content",
                                                                !.observations = obs]]
                       /\ UNCHANGED shortTerm
                  ELSE ConRest(r, [reqs[r] EXCEPT !.observations = obs])
    /\ UNCHANGED <<parContext, kvVars, notConVars>>

\* the await of line 66 ends for one request
ConContentEnds ==
    /\ \E r \in DOMAIN reqs :
         /\ reqs[r].pc = "await_content"
         /\ \E c \in ConContentResults \cup {CapabilityRaised} :
              LET obs == IF c = CapabilityRaised THEN RecordFailure(reqs[r].observations, "content")
                         ELSE ("content" :> c) @@ reqs[r].observations
              IN  ConRest(r, [reqs[r] EXCEPT !.observations = obs])
    /\ UNCHANGED <<parContext, kvVars, notConVars>>

ConNext == ConStart \/ ConVisionEnds \/ ConContentEnds

-----------------------------------------------------------------------------
(* save_memory / load_memory (services/agent_memory.py lines 12-32) on      *)
(* table AgentMemory (models/agent_memory.py lines 11-16: id, user_id, key, *)
(* value, timestamp; no unique constraint on (user_id, key)).  Every caller *)
(* has its own session; all rows are of user "u1", so a pair is its key;    *)
(* caller c is the c-th to enter save_memory.                               *)
(* The timestamp column is never read and is left out.                      *)

\* callers; each makes one save_memory call
MaxCallers == 3

KvKeys == {"tone", "goal"}

KvValues == {"casual", "formal"}

NoCall == [pc |-> "idle", key |-> None, value |-> None, existing |-> 0]

NotLoaded == EmptyDict

\* the rows select(...).where(user_id == ..., key == ...) matches
KvMatching(rows, key) == {i \in DOMAIN rows : rows[i].user_id = "u1" /\ rows[i].key = key}

\* .first() of the select of lines 13-15 on the rows committed so far: a row
\* that matches (without ORDER BY the database may hand back any of them),
\* 0 for None
KvFirst(rows, key) == IF KvMatching(rows, key) = {} THEN {0} ELSE KvMatching(rows, key)

\* a caller enters save_memory and runs the select of lines 13-15
KvSelect ==
    /\ \E c \in DOMAIN kvCalls :
         /\ kvCalls[c].pc = "idle"
         /\ \A b \in 1..(c - 1) : kvCalls[b].pc # "idle"
         /\ \E key \in KvKeys, value \in KvValues :
            \E existing \in KvFirst(kvRows, key) :
              kvCalls' = [kvCalls EXCEPT ![c] =
                            [pc |-> "selected", key |-> key, value |-> value,
                             existing |-> existing]]
    /\ UNCHANGED <<kvRows, kvLast, kvLoaded, parContext, reqs, shortTerm, notConVars>>

\* lines 16-23: the row found is updated, or a new row is added; commit
KvCommit ==
    /\ \E c \in DOMAIN kvCalls :
         /\ kvCalls[c].pc = "selected"
         /\ kvRows' = IF kvCalls[c].existing # 0
                      THEN [kvRows EXCEPT ![kvCalls[c].existing].value = kvCalls[c].value]
                      ELSE Append(kvRows, [user_id |-> "u1", key |-> kvCalls[c].key,
                                           value |-> kvCalls[c].value])
         /\ kvLast' = [kvLast EXCEPT ![kvCalls[c].key] = kvCalls[c].value]
         /\ kvCalls' = [kvCalls EXCEPT ![c] = [@ EXCEPT !.pc = "returned"]]
    /\ UNCHANGED <<kvLoaded, parContext, reqs, shortTerm, notConVars>>

\* load_memory, lines 26-32: the value of the first matching row, or None
KvLoad ==
    /\ \E key \in KvKeys : \E found \in KvFirst(kvRows, key) :
         kvLoaded' = [key |-> key,
                      value |-> IF found = 0 THEN None ELSE kvRows[found].value,
                      last |-> kvLast[key]]
    /\ UNCHANGED <<kvRows, kvCalls, kvLast, parContext, reqs, shortTerm, notConVars>>

KvNext == KvSelect \/ KvCommit \/ KvLoad

ConIdle ==
    /\ parContext = InitialContext
    /\ reqs = [r \in 1..MaxConcurrent |-> NoRequest]
    /\ kvRows = <<>>
    /\ kvCalls = [c \in 1..MaxCallers |-> NoCall]
    /\ kvLast = [k \in KvKeys |-> None]
    /\ kvLoaded = NotLoaded

ExtraIdle == ParIdle /\ RouterIdle /\ MemIdle /\ SvcIdle /\ ConIdle

-----------------------------------------------------------------------------
(* StrategyAgent.decide and _determine_verdict applied to drawn inputs *)

MaxProbeDelta == 60

MaxWarnings == 3

\* scores handed to _determine_verdict: 50 - MaxProbeDelta .. 50 + MaxProbeDelta
ProbeScores == (50 - MaxProbeDelta)..(50 + MaxProbeDelta)

WarningList(n) == [i \in 1..n |-> "warning"]

NoVerdict == "not computed"

ProbeIdle ==
    /\ dIn = EmptyDict
    /\ dOut = NoDecision
    /\ vIn = EmptyDict
    /\ vOut = NoVerdict

DecideInit ==
    /\ dIn \in [obs : ObservationInputs, hist : HistoryInputs, platform : Platforms]
    /\ dOut = NoDecision
    /\ vIn = EmptyDict
    /\ vOut = NoVerdict

\* strategy_agent.decide(observations, history, platform)
DecideApply ==
    /\ dOut = NoDecision
    /\ dOut' = decide(dIn.obs, dIn.hist, dIn.platform, 0)
    /\ UNCHANGED <<dIn, vIn, vOut, orchVars, chainVars, extraVars>>

VerdictInit ==
    /\ vIn \in [score : ProbeScores, warnings : {WarningList(n) : n \in 0..MaxWarnings}]
    /\ vOut = NoVerdict
    /\ dIn = EmptyDict
    /\ dOut = NoDecision

\* strategy_agent._determine_verdict(score, warnings)
VerdictApply ==
    /\ vOut = NoVerdict
    /\ vOut' = _determine_verdict(vIn.score, vIn.warnings)
    /\ UNCHANGED <<dIn, dOut, vIn, orchVars, chainVars, extraVars>>

-----------------------------------------------------------------------------
(* Specifications *)

Init == OrchInit /\ ProbeIdle /\ ChainIdle /\ ExtraIdle

Next == OrchNext

\* the orchestrator serving requests (run and quick_analyze)
Spec == Init /\ [][Next]_vars

\* the same, with every started request scheduled until it returns or raises:
\* the event loop resumes a coroutine whose awaited capability call has ended
FairSpec == Spec /\ WF_vars(OrchProgress)

InitDecide == OrchInit /\ DecideInit /\ ChainIdle /\ ExtraIdle

\* the memory when a request arrives: empty, or holding what an earlier run
\* request of u1 (a risky image, no text, no platform, no stored post) left
EarlierEntry ==
    [timestamp   |-> 0,
     observation |-> ("vision" :> [analyzed |-> TRUE, risk |-> "High",
                        fixes |-> <<"Add a face to the image - faces increase engagement by 38%",
                                    "Increase brightness/exposure - dark images get less attention",
                                    "Consider adding text overlay for context (optional)">>]),
     decision    |-> [confidence |-> "Low",
                      score      |-> 30,
                      verdict    |-> "Post with tweaks",
                      advice     |-> <<"Add a face to the image - faces increase engagement by 38%",
                                       "Increase brightness/exposure - dark images get less attention",
                                       "I'm learning your patterns. Keep posting!">>,
                      warnings   |-> <<"High visual risk">>,
                      why        |-> [score |-> 30,
                                      reasons |-> << <<"Visual risk", "High">>,
                                                     <<"Limited history data", None>> >>],
                      timestamp  |-> 0],
     context     |-> <<"unknown", "image only">>]

InitWarm ==
    /\ pc = "idle"
    /\ ctx = [user_id |-> "u1", platform |-> NoPlatform, image |-> None, text |-> None]
    /\ observations = EmptyDict
    /\ history = EmptyDict
    /\ decision = NoDecision
    /\ response = NoResponse
    /\ stageTrace = <<>>
    /\ env = EnvInit("none")
    /\ shortTerm \in {EmptyDict, ("u1" :> <<EarlierEntry>>)}
    /\ nRequests = 0
    /\ ProbeIdle /\ ChainIdle /\ ExtraIdle

\* the orchestrator serving requests after earlier ones
SpecWarm == InitWarm /\ [][Next]_vars

InitTrend ==
    /\ OrchInit /\ ProbeIdle /\ ChainIdle /\ ParIdle /\ RouterIdle /\ MemIdle /\ ConIdle
    /\ \E c \in TrendCases : \E l \in [1..c.n -> DayLists] :
         tIn = [data |-> PostsOf(l, c.undated), days |-> c.days]
    /\ tOut = NoTrend
    /\ drafts = <<>>
    /\ patternRows = <<>>
    /\ analysis = NotAnalysed
    /\ prevAnalysis = NotAnalysed

\* trend_analysis applied to every drawn input
SpecTrend == InitTrend /\ [][TrendApply]_vars

\* content arriving and pattern analyses being run for one user
SpecIntel == Init /\ [][IntelNext]_vars

\* decide applied to every drawn input
SpecDecide == InitDecide /\ [][DecideApply]_vars

InitVerdict == OrchInit /\ VerdictInit /\ ChainIdle /\ ExtraIdle

\* _determine_verdict applied to every drawn pair
SpecVerdict == InitVerdict /\ [][VerdictApply]_vars

\* a chain being configured and run once
SpecChain == Init /\ [][ChainNext]_vars

\* a parallel executor being configured and run once
SpecPar == Init /\ [][ParNext]_vars

\* a router being configured and asked to route one query
SpecRouter == Init /\ [][RouterNext]_vars

\* a router whose callers may register an agent named "default"
SpecRouterAny == Init /\ [][RouterNextAny]_vars

\* a parallel executor whose callers may repeat a name and whose fns use the
\* dict they are handed
SpecParAny == Init /\ [][ParNextAny]_vars

\* several requests in flight in OrchestratorAgent.run
SpecConcurrent == Init /\ [][ConNext]_vars

\* callers of save_memory and load_memory, each with its own session
SpecKv == Init /\ [][KvNext]_vars

\* the memory being written to and read for two users
SpecMemory == Init /\ [][MemNext]_vars

-----------------------------------------------------------------------------
(* Properties *)

Verdicts == {"Post", "Post with tweaks", "Fix before posting", "Reconsider"}

RunRequest == env.mode = "run"

QuickRequest == env.mode = "quick"

HasDecision(resp) ==
    /\ "decision" \in DOMAIN resp
    /\ resp.decision # NoDecision
    /\ resp.decision.score \in 0..100
    /\ resp.decision.confidence \in {"High", "Medium", "Low"}
    /\ resp.decision.verdict \in Verdicts

\* C1: every Decision returned by decide has an integer score with
\* 0 <= score <= 100 and a confidence among High, Medium, Low, whatever the
\* observations, history and platform (content sub-scores outside 0..100 included)
C1_ScoreAndConfidenceInRange ==
    dOut # NoDecision =>
        /\ dOut.score \in 0..100
        /\ dOut.confidence \in {"High", "Medium", "Low"}

\* a decision whose raw score, pushed up by a content sub-score above 100, was clamped
C1_Witness ==
    /\ dOut # NoDecision
    /\ Get(Get(dIn.obs, "content", EmptyDict), "score", 50) > 100
    /\ RawScore(dIn.obs, dIn.hist) > 100
    /\ dOut.score = 100

\* C2: in run, a Vision or Content capability that raises is recorded in
\* observations under its name as {analyzed: false, error}; the request never
\* ends in an exception, and when it returns every remaining stage has run and
\* the response carries a Decision
C2_RunAbsorbsCapabilityErrors ==
    (RunRequest /\ (env.vision = "raised" \/ env.content = "raised")) =>
        /\ env.vision = "raised" =>
             /\ "vision" \in DOMAIN observations
             /\ observations["vision"] = [analyzed |-> FALSE, error |-> ErrorText]
        /\ env.content = "raised" =>
             /\ "content" \in DOMAIN observations
             /\ observations["content"] = [analyzed |-> FALSE, error |-> ErrorText]
        /\ pc # "raised"
        /\ pc = "done" =>
             /\ {"Understanding", "Reasoning", "Remembered", "Advising"}
                    \subseteq SeqToSet(stageTrace)
             /\ HasDecision(response)
             /\ env.vision = "raised" => response.observations.vision = "not analyzed"
             /\ env.content = "raised" => response.observations.content = "not analyzed"

\* run has returned although both capabilities raised
C2_Witness ==
    /\ RunRequest
    /\ pc = "done"
    /\ env.vision = "raised"
    /\ env.content = "raised"
    /\ HasDecision(response)

\* C3: in quick_analyze, a Vision or Content capability that raises is absorbed
\* into an observation with analyzed = false and the call still returns a
\* Decision; the error never leaves quick_analyze
C3_QuickAbsorbsCapabilityErrors ==
    (QuickRequest /\ (env.vision = "raised" \/ env.content = "raised")) =>
        /\ pc # "raised"
        /\ env.vision = "raised" =>
             /\ "vision" \in DOMAIN observations
             /\ ~Flag(observations["vision"], "analyzed")
        /\ env.content = "raised" =>
             /\ "content" \in DOMAIN observations
             /\ ~Flag(observations["content"], "analyzed")
        /\ pc = "done" => HasDecision(response)

\* "no history": the store holds no post for the user, or cannot be read
NoHistory == env.store # "not called" /\ get_recent_posts(env.store = "raised", env.posts) = <<>>

\* C4: a run request with no image, no text and a user without history never
\* raises and returns a Decision with confidence Low, score 50 and verdict
\* "Post with tweaks"
C4_EmptyInputDecision ==
    (RunRequest /\ ~has_image(ctx) /\ ~has_text(ctx) /\ (env.store = "not called" \/ NoHistory)) =>
        /\ pc # "raised"
        /\ pc = "done" =>
             /\ HasDecision(response)
             /\ response.status = "success"
             /\ response.decision.confidence = "Low"
             /\ response.decision.score = 50
             /\ response.decision.verdict = "Post with tweaks"

\* run has returned for an empty request of a user whose store is readable and empty
C4_Witness ==
    /\ RunRequest
    /\ pc = "done"
    /\ ctx.image = None
    /\ ctx.text = None
    /\ env.store = "returned"
    /\ env.posts = <<>>
    /\ response.decision.score = 50

LastEntry(mem, user_id) == mem[user_id][Len(mem[user_id])]

\* C5: when the long-term persistence step of Memory.store fails, run does not
\* raise, the entry (the request's observations and Decision) is in the
\* short-term store, and the response returned is the normal success response
\* carrying that Decision, with no error in it
C5_PersistFailureNotSurfaced ==
    (RunRequest /\ env.persist = "raised") =>
        /\ pc # "raised"
        /\ ctx.user_id \in DOMAIN shortTerm
        /\ shortTerm[ctx.user_id] # <<>>
        /\ LastEntry(shortTerm, ctx.user_id).observation = observations
        /\ LastEntry(shortTerm, ctx.user_id).decision = decision
        /\ pc = "done" =>
             /\ response.status = "success"
             /\ "error" \notin DOMAIN response
             /\ HasDecision(response)
             /\ response.decision = decision

\* run has returned after a failed persistence step
C5_Witness ==
    /\ RunRequest
    /\ pc = "done"
    /\ env.persist = "raised"
    /\ response.status = "success"

\* C6: when the history lookup fails (the store raises, or the analysis of the
\* posts raises), run goes on with a history whose has_data is false; the
\* request is not aborted and, when it returns, Reasoning has run and the
\* response carries a Decision
C6_HistoryFailureMeansNoHistory ==
    (RunRequest /\ (env.store = "raised" \/ env.analysis = "raised")) =>
        /\ "has_data" \in DOMAIN history
        /\ history.has_data = FALSE
        /\ pc # "raised"
        /\ pc \in {"run_remember", "run_return", "done"} =>
             /\ "Reasoning" \in SeqToSet(stageTrace)
             /\ decision = decide(observations, [has_data |-> FALSE], ctx.platform,
                                  decision.timestamp)
        /\ pc = "done" => HasDecision(response)

\* run has returned although the analysis of the user's posts raised
C6_Witness ==
    /\ RunRequest
    /\ pc = "done"
    /\ env.analysis = "raised"
    /\ env.posts # <<>>
    /\ HasDecision(response)

\* the order in which run visits the stages
RunOrder == <<"Observing", "Understanding", "Reasoning", "Remembered", "Advising">>

\* the order the specification of the state machine gives
SpecifiedOrder == <<"Observing", "Understanding", "Reasoning", "Advising", "Remembered">>

IsPrefix(a, b) == Len(a) <= Len(b) /\ a = SubSeq(b, 1, Len(a))

\* C7 as stated: a run request that has returned went through Observing,
\* Understanding, Reasoning, Advising, Remembered, once each and in that order
C7_StagesInSpecifiedOrder ==
    (RunRequest /\ pc = "done") => stageTrace = SpecifiedOrder

\* C7, with the order run follows: every invocation of run passes through the
\* stages Observing, Understanding, Reasoning, Remembered, Advising exactly once
\* each, in that order (the memory write comes before the response is shaped),
\* never returns to an earlier stage, never ends in an error, and eventually
\* returns
C7_LinearTraversalToDone ==
    /\ [](RunRequest => /\ IsPrefix(stageTrace, RunOrder)
                        /\ pc # "raised"
                        /\ (pc = "done" => stageTrace = RunOrder /\ HasDecision(response)))
    /\ ((RunRequest /\ pc # "done") ~> (RunRequest /\ pc = "done"))

\* run has returned after visiting all five stages
C7_Witness ==
    /\ RunRequest
    /\ pc = "done"
    /\ Len(stageTrace) = 5
    /\ stageTrace[4] = "Remembered"
    /\ stageTrace[5] = "Advising"
    /\ response # NoResponse

\* C8 as stated: score 70 with no warning gives Post, score 70 with one warning
\* gives Post with tweaks, score 30 gives Fix before posting and score 29 gives
\* Reconsider, the last two whatever the number of warnings
C8_BoundariesAsStated ==
    dOut # NoDecision =>
        /\ (dOut.score = 70 /\ Len(dOut.warnings) = 0) => dOut.verdict = "Post"
        /\ (dOut.score = 70 /\ Len(dOut.warnings) = 1) => dOut.verdict = "Post with tweaks"
        /\ dOut.score = 30 => dOut.verdict = "Fix before posting"
        /\ dOut.score = 29 => dOut.verdict = "Reconsider"

\* C8: score 70 with no warning gives Post; score 70 with one warning gives
\* Post with tweaks; score 30 gives Fix before posting and score 29 gives
\* Reconsider when there are at least two warnings; with at most one warning
\* both give Post with tweaks
C8_BoundariesWithWarnings ==
    dOut # NoDecision =>
        /\ (dOut.score = 70 /\ Len(dOut.warnings) = 0) => dOut.verdict = "Post"
        /\ (dOut.score = 70 /\ Len(dOut.warnings) = 1) => dOut.verdict = "Post with tweaks"
        /\ (dOut.score = 30 /\ Len(dOut.warnings) >= 2) => dOut.verdict = "Fix before posting"
        /\ (dOut.score = 29 /\ Len(dOut.warnings) >= 2) => dOut.verdict = "Reconsider"
        /\ (dOut.score \in {29, 30} /\ Len(dOut.warnings) <= 1)
               => dOut.verdict = "Post with tweaks"

\* a decision at the boundary 30 with two warnings
C8_Witness ==
    /\ dOut # NoDecision
    /\ dOut.score = 30
    /\ Len(dOut.warnings) >= 2
    /\ dOut.verdict = "Fix before posting"

\* the four-tier rule, each tier with its full condition
FourTier(score, n) ==
    CASE score >= 70 /\ n = 0                                   -> "Post"
      [] ~(score >= 70 /\ n = 0) /\ (score >= 50 \/ n <= 1)     -> "Post with tweaks"
      [] score < 50 /\ n > 1 /\ score >= 30                     -> "Fix before posting"
      [] score < 30 /\ n > 1                                    -> "Reconsider"

\* C9: for every pair (score, number of warnings) _determine_verdict yields one
\* of the four verdicts, the one of the four-tier rule: Post if score >= 70 and
\* no warning; else Post with tweaks if score >= 50 or at most one warning; else
\* Fix before posting if score >= 30; else Reconsider
C9_VerdictIsFourTier ==
    vOut # NoVerdict =>
        /\ vOut \in Verdicts
        /\ vOut = FourTier(vIn.score, Len(vIn.warnings))

\* a pair below 30 that one warning keeps at Post with tweaks
C9_Witness ==
    /\ vOut = "Post with tweaks"
    /\ vIn.score < 30
    /\ Len(vIn.warnings) = 1

\* step i of the chain failed, is required, and the run stops on errors
HaltingFailure(i) ==
    /\ i \in DOMAIN chainResult.step_results
    /\ ~chainResult.step_results[i].success
    /\ chainSteps[i].required
    /\ stopOnError

\* C10: with stop_on_error = true, once a required step has failed the chain is
\* over with success = false: no later step's function is invoked and no later
\* step's name is in step_results
C10_RequiredFailureHalts ==
    chainPc # "building" =>
        \A i \in DOMAIN chainSteps :
            HaltingFailure(i) =>
                /\ chainPc = "done"
                /\ chainResult.success = FALSE
                /\ Len(chainResult.step_results) = i
                /\ \A j \in DOMAIN chainSteps :
                     j > i =>
                       /\ invoked[j] = 0
                       /\ \A k \in DOMAIN chainResult.step_results :
                            chainResult.step_results[k].step # chainSteps[j].name

\* a required first step failed after all its attempts and a second step was left out
C10_Witness ==
    /\ chainPc = "done"
    /\ Len(chainSteps) >= 2
    /\ HaltingFailure(1)
    /\ chainSteps[1].retry_count >= 2
    /\ invoked[1] = chainSteps[1].retry_count
    /\ invoked[2] = 0

\* the names of the failed steps of step_results, in order
FailedNames(step_results) ==
    LET failed == SelectSeq(step_results, LAMBDA e : ~e.success)
    IN  [i \in DOMAIN failed |-> failed[i].step]

\* C11: a failing step that is not required, or any failing step when
\* stop_on_error is false, does not halt the chain: every step is executed, in
\* order; and every failed step, halting or not, has exactly one entry naming
\* it in the error list, in step order
C11_OtherFailuresDoNotHalt ==
    chainPc # "building" =>
        /\ [i \in DOMAIN chainResult.errors |-> chainResult.errors[i][1]]
              = FailedNames(chainResult.step_results)
        /\ (chainPc = "done" /\ ~\E i \in DOMAIN chainSteps : HaltingFailure(i)) =>
              /\ Len(chainResult.step_results) = Len(chainSteps)
              /\ \A i \in DOMAIN chainSteps :
                    chainResult.step_results[i].step = chainSteps[i].name

\* a required first step failed without stop_on_error, an optional second step
\* failed after being tried, and both are in the error list
C11_Witness ==
    /\ chainPc = "done"
    /\ Len(chainSteps) = 2
    /\ ~stopOnError
    /\ chainSteps[1].required /\ ~chainSteps[2].required
    /\ invoked[2] >= 1
    /\ Len(chainResult.errors) = 2
    /\ chainResult.errors[1][1] = chainSteps[1].name
    /\ chainResult.errors[2][1] = chainSteps[2].name

\* what step i, which succeeded, adds to the context under its name
MergedOutput(i) ==
    LET raw == chainResult.step_results[i].output.output
    IN  IF chainSteps[i].transform THEN Transform(raw) ELSE raw

\* C12: whenever step N succeeds, the context passed to step N+1 holds step
\* N's output, after its transform function if any, under step N's name; when
\* step N fails, step N+1 is passed the context step N was passed; and a step's
\* function is awaited with the context the step was passed
C12_OutputVisibleToNextStep ==
    chainPc # "building" =>
        /\ \A i \in DOMAIN passed :
              i > 1 =>
                IF chainResult.step_results[i - 1].success
                THEN /\ chainSteps[i - 1].name \in DOMAIN passed[i]
                     /\ passed[i][chainSteps[i - 1].name] = MergedOutput(i - 1)
                ELSE passed[i] = passed[i - 1]
        /\ \A i \in DOMAIN passed :
              \A a \in DOMAIN attemptLog[i] :
                 attemptLog[i][a].ok =>
                    attemptLog[i][a].output = AgentOutput(chainSteps[i], passed[i])

\* the first step succeeded and has a transform; the second step was started
C12_Witness ==
    /\ Len(passed) = 2
    /\ chainResult.step_results[1].success
    /\ chainSteps[1].transform
    /\ passed[2][chainSteps[1].name] =
          Transform(AgentOutput(chainSteps[1], InitialContext))
    /\ invoked[2] >= 1

\* C13: _execute_step awaits a step's function at most retry_count times and
\* stops at the first attempt that succeeds, reporting success with that
\* attempt's output; when every attempt times out or raises, the step result
\* is success = false with the error of the last attempt; with retry_count <= 0
\* the function is never awaited and the step is reported failed
C13_RetryUntilFirstSuccess ==
    chainPc # "building" =>
        \A i \in DOMAIN chainSteps :
            LET log  == attemptLog[i]
                most == Max(chainSteps[i].retry_count, 0)
            IN  /\ Len(log) = invoked[i]
                /\ Len(log) <= most
                /\ \A a \in DOMAIN log : log[a].ok => a = Len(log)
                /\ i \in DOMAIN chainResult.step_results =>
                      LET step_result == chainResult.step_results[i].output
                      IN  IF chainResult.step_results[i].success
                          THEN /\ log # <<>>
                               /\ log[Len(log)].ok
                               /\ step_result = [success |-> TRUE,
                                                 output  |-> log[Len(log)].output]
                          ELSE /\ Len(log) = most
                               /\ \A a \in DOMAIN log : ~log[a].ok
                               /\ step_result =
                                     [success |-> FALSE,
                                      error   |-> IF log = <<>> THEN None
                                                  ELSE log[Len(log)].error]

\* a step tried twice: a timeout, then a raised error, which is the one reported
C13_Witness ==
    /\ chainPc # "building"
    /\ Len(chainResult.step_results) >= 1
    /\ chainSteps[1].retry_count = 2
    /\ Len(attemptLog[1]) = 2
    /\ attemptLog[1][1] = [ok |-> FALSE, error |-> "Timeout after 30.0s"]
    /\ attemptLog[1][2] = [ok |-> FALSE, error |-> "agent error"]
    /\ chainResult.step_results[1].output = [success |-> FALSE, error |-> "agent error"]

\* the agents whose fn raises, in the order they were added
Raisers == SelectSeq(parAgents, LAMBDA a : a.fn = "raises")

\* C14: when all N invocations complete before the timeout, k of them raising
\* and N - k succeeding, run returns success = (k = 0), an error list of
\* exactly k entries, each tagged with the name of the invocation that failed,
\* and a results map of exactly N - k entries
C14_PartialFailureAccounting ==
    parPc = "done" =>
        LET N == Len(parAgents)
            k == Len(Raisers)
        IN  /\ parResult.success = (k = 0)
            /\ Len(parResult.errors) = k
            /\ \A j \in 1..k : parResult.errors[j][1] = Raisers[j].name
            /\ Cardinality(DOMAIN parResult.results) = N - k
            /\ \A i \in DOMAIN parAgents :
                  parAgents[i].fn = "returns" =>
                     parAgents[i].name \in DOMAIN parResult.results
            /\ parResult.agents_run = N
            /\ parResult.agents_succeeded = N - k

\* three invocations, exactly one of which raised
C14_Witness ==
    /\ parPc = "done"
    /\ Len(parAgents) = 3
    /\ Len(Raisers) = 1
    /\ parResult.success = FALSE
    /\ Len(parResult.errors) = 1
    /\ Cardinality(DOMAIN parResult.results) = 2

\* the overall timeout has fired while some task was still running
TimeoutFired == \E i \in DOMAIN branch : branch[i] = Cancelled

\* C15: when the overall timeout fires while some branches are still running,
\* run still returns a result and does not raise: the branches still running
\* are abandoned and the results of the branches that had completed are returned
C15_TimeoutReturnsCompleted ==
    TimeoutFired =>
        /\ parPc = "done"
        /\ \A i \in DOMAIN branch :
              (branch[i].status = "returned" /\ branch[i].value.success) =>
                 /\ parAgents[i].name \in DOMAIN parResult.results
                 /\ parResult.results[parAgents[i].name] = branch[i].value.result

\* C16: under every interleaving of the branches, a branch that raises neither
\* cancels another branch nor changes what another branch has recorded, and
\* when run returns, every branch whose fn returns has run to completion and
\* its result is in the results map under its name
C16_BranchesIsolated ==
    /\ [][\A i \in DOMAIN branch :
             (branch[i] = Pending /\ i \in DOMAIN branch'
                /\ branch'[i].status = "returned" /\ ~branch'[i].value.success)
             => \A j \in DOMAIN branch : j # i => branch'[j] = branch[j]]_vars
    /\ [](parPc = "done" =>
            \A i \in DOMAIN parAgents :
               parAgents[i].fn = "returns" =>
                  /\ branch[i] = Returned(execute_agent(parAgents[i]))
                  /\ parAgents[i].name \in DOMAIN parResult.results
                  /\ parResult.results[parAgents[i].name] = FnResult(parAgents[i]))

\* the second branch raised first, the first and the third then returned and
\* are in the results
C16_Witness ==
    /\ parPc = "done"
    /\ completed = <<2, 1, 3>>
    /\ parAgents[2].fn = "raises"
    /\ parAgents[1].fn = "returns"
    /\ parAgents[3].fn = "returns"
    /\ DOMAIN parResult.results = {parAgents[1].name, parAgents[3].name}

\* the number of the keywords handed to register for route i that occur in the
\* query, letter case ignored
MatchCount(i, query) ==
    Cardinality({k \in DOMAIN routes[i].given :
                    IsSubstring(Lower(routes[i].given[k]), Lower(query))})

\* the registered candidates with a score above 0
Candidates(query) == {i \in DOMAIN routes : MatchCount(i, query) > 0}

\* C17: detect_intent scores each registered candidate as the number of its
\* keywords that occur as a case-insensitive substring of the input, leaves out
\* the candidates with score 0, and returns a candidate with the greatest score
\* and, among those with the greatest score, the greatest priority
C17_BestScoreThenPriority ==
    (routed # NotRouted /\ Candidates(routed.query) # {}) =>
        \E i \in Candidates(routed.query) :
            /\ routed.intent = routes[i].name
            /\ \A j \in Candidates(routed.query) :
                  /\ MatchCount(j, routed.query) <= MatchCount(i, routed.query)
                  /\ MatchCount(j, routed.query) = MatchCount(i, routed.query)
                       => routes[j].priority <= routes[i].priority

\* two candidates match "grow fan": the one with two keywords in it wins over
\* the one with one keyword and the higher priority
C17_Witness ==
    /\ routed # NotRouted
    /\ Len(routes) = 2
    /\ MatchCount(1, routed.query) = 1 /\ routes[1].priority = 1
    /\ MatchCount(2, routed.query) = 2 /\ routes[2].priority = 0
    /\ routed.intent = routes[2].name

\* C18: when no registered candidate scores above 0 for the input, route
\* awaits the default handler if one is set, and otherwise returns the failure
\* result 'No matching agent found' without awaiting any function
C18_FallbackOrNoMatch ==
    (routed # NotRouted /\ Candidates(routed.query) = {}) =>
        IF defaultAgent # None
        THEN /\ routed.awaited = defaultAgent
             /\ routed.result = RouteResult(defaultAgent, routed.query)
        ELSE /\ routed.awaited = None
             /\ routed.result.success = FALSE
             /\ routed.result.error = "No matching agent found"

\* a query none of the registered keywords occurs in went to the default handler
C18_Witness ==
    /\ routed # NotRouted
    /\ routes # <<>>
    /\ Candidates(routed.query) = {}
    /\ defaultAgent # None
    /\ routed.awaited = defaultAgent

\* the entries number first..last stored for a user, in insertion order
EntriesFrom(first, last) == [j \in 1..(last - first + 1) |-> MemEntry(first + j - 1)]

\* C19: after n store calls for a user, recall(limit = k) with k >= 1 returns
\* exactly the min(k, n, 50) most recently stored entries, in insertion order;
\* after 60 stores recall(limit = 50) returns the entries 11..60
C19_RecallReturnsMostRecent ==
    (recalled # NotRecalled /\ recalled.op = "recall" /\ recalled.limit >= 1) =>
        LET n == nStored[recalled.user_id]
            m == Min(recalled.limit, Min(n, 50))
        IN  /\ Len(recalled.value) = m
            /\ recalled.value = EntriesFrom(n - m + 1, n)

\* 60 entries stored for a user, and recall(limit = 50) returned entries 11..60
C19_Witness ==
    /\ recalled # NotRecalled
    /\ recalled.op = "recall"
    /\ recalled.limit = 50
    /\ nStored[recalled.user_id] = 60
    /\ Len(recalled.value) = 50
    /\ recalled.value[1].timestamp = 11
    /\ recalled.value[50].timestamp = 60

\* C20: the short-term store never holds more than 50 entries for a user;
\* eviction is first-in first-out: a store that overflows removes the entry
\* inserted first and what is held is always the latest entries in insertion
\* order; a recall or get_patterns call changes neither the entries held nor
\* their order
C20_BoundedFifoStore ==
    /\ [](\A u \in DOMAIN shortTerm :
            /\ Len(shortTerm[u]) <= 50
            /\ u \in DOMAIN nStored =>
                  shortTerm[u] = EntriesFrom(nStored[u] - Len(shortTerm[u]) + 1, nStored[u]))
    /\ [][/\ nStored' = nStored => shortTerm' = shortTerm
          /\ \A u \in DOMAIN shortTerm :
                (u \in DOMAIN nStored /\ nStored'[u] = nStored[u] + 1
                    /\ Len(shortTerm[u]) = 50)
                => shortTerm'[u] = Append(Tail(shortTerm[u]), MemEntry(nStored[u] + 1))]_vars

\* the 51st store for a user has evicted the first entry, and get_patterns was
\* then called for that user
C20_Witness ==
    /\ recalled # NotRecalled
    /\ recalled.op = "get_patterns"
    /\ nStored[recalled.user_id] = 51
    /\ Len(shortTerm[recalled.user_id]) = 50
    /\ shortTerm[recalled.user_id][1].timestamp = 2
    /\ recalled.value.total_observations = 50

-----------------------------------------------------------------------------
(* The Decision: determinism, score, confidence, advice *)

\* a Decision without its timestamp
Undated(dec) == [k \in DOMAIN dec \ {"timestamp"} |-> dec[k]]

\* the request being served has the inputs of the earlier request whose entry
\* EarlierEntry is: the same capability results, no history, no platform
SameAsEarlier ==
    /\ observations = EarlierEntry.observation
    /\ ~Flag(history, "has_data")
    /\ ctx.platform = NoPlatform

C24_RawScoreIsReference ==
    dOut # NoDecision =>
        LET vision  == Get(dIn.obs, "vision", EmptyDict)
            content == Get(dIn.obs, "content", EmptyDict)
            risk    == Get(vision, "risk", None)
            hook    == Get(content, "hook_strength", None)
            a == 50
            b == IF ~Flag(vision, "analyzed") THEN a
                 ELSE IF risk = "High" THEN a - 20
                 ELSE IF risk = "Medium" THEN a - 10
                 ELSE a + 10
            sum == b + content.score
            c == IF ~Flag(content, "analyzed") THEN b
                 ELSE CHOOSE q \in (0 - 200)..200 : 2 * q <= sum /\ sum < 2 * (q + 1)
            d == IF ~Flag(content, "analyzed") THEN c
                 ELSE IF hook = "Strong" THEN c + 5
                 ELSE IF hook = "Weak" THEN c - 5
                 ELSE c
            e == IF Flag(dIn.hist, "has_data")
                    /\ "patterns" \in DOMAIN dIn.hist
                    /\ "engagement_trend" \in DOMAIN dIn.hist.patterns
                    /\ dIn.hist.patterns.engagement_trend = "growing"
                 THEN d + 5 ELSE d
        IN  /\ dOut.why.score = e
            /\ dOut.score = (IF e < 0 THEN 0 ELSE IF e > 100 THEN 100 ELSE e)

\* decide has scored a risky image with a weak caption of content score -55
\* and a growing history: 30, floor(-25 / 2) = -13, -18, -13
C24_Witness ==
    /\ dOut # NoDecision
    /\ Flag(Get(dIn.obs, "vision", EmptyDict), "analyzed")
    /\ dIn.obs["vision"].risk = "High"
    /\ Flag(Get(dIn.obs, "content", EmptyDict), "analyzed")
    /\ dIn.obs["content"].score = 0 - 55
    /\ dIn.obs["content"].hook_strength = "Weak"
    /\ Flag(dIn.hist, "has_data")
    /\ Get(Get(dIn.hist, "patterns", EmptyDict), "engagement_trend", None) = "growing"
    /\ dOut.why.score = 0 - 13
    /\ dOut.score = 0

\* the history's trend is known: its patterns carry a trend that is not "unknown"
TrendKnown(hist) ==
    /\ "patterns" \in DOMAIN hist
    /\ "engagement_trend" \in DOMAIN hist.patterns
    /\ hist.patterns.engagement_trend # "unknown"

\* C25: the confidence of a Decision is the reference: +2 for vision, +2 for
\* content, +2 for a history with data, +1 only if that history's trend is
\* known (patterns without a trend value do not earn it); 5 or more is High,
\* 3 or more Medium, less Low
C25_ConfidenceIsReference ==
    dOut # NoDecision =>
        LET total ==
              (IF Flag(Get(dIn.obs, "vision", EmptyDict), "analyzed") THEN 2 ELSE 0)
              + (IF Flag(Get(dIn.obs, "content", EmptyDict), "analyzed") THEN 2 ELSE 0)
              + (IF Flag(dIn.hist, "has_data") THEN 2 ELSE 0)
              + (IF Flag(dIn.hist, "has_data") /\ TrendKnown(dIn.hist) THEN 1 ELSE 0)
        IN  dOut.confidence = (IF total >= 5 THEN "High"
                               ELSE IF total >= 3 THEN "Medium"
                               ELSE "Low")

\* the index at which s first occurs in lst
FirstAt(lst, s) == CHOOSE i \in DOMAIN lst : lst[i] = s /\ \A j \in 1..(i - 1) : lst[j] # s

\* where decide collects a string from: 1 vision fixes, 2 content suggestions,
\* 4 platform tips, 3 anything else (the history advice)
AdviceRank(s) ==
    IF s \in SeqToSet(Get(Get(dIn.obs, "vision", EmptyDict), "fixes", <<>>)) THEN 1
    ELSE IF s \in SeqToSet(Get(Get(dIn.obs, "content", EmptyDict), "suggestions", <<>>)) THEN 2
    ELSE IF s \in { "Add 5-10 relevant hashtags for Instagram discovery",
                    "Reduce hashtags to 10-15 for clean Instagram posting",
                    "Consider shortening for Twitter's fast-scroll format",
                    "LinkedIn posts with clear CTAs get 2x more engagement" } THEN 4
    ELSE 3

\* C26: the advice of a Decision has no repeated string and at most 5 strings,
\* and is the first (up to 5) distinct strings collected, in the order of their
\* first collection: vision fixes, content suggestions, history advice,
\* platform tips
C26_AdviceDistinctCappedInOrder ==
    dOut # NoDecision =>
        LET coll == CollectedAdvice(dIn.obs, dIn.hist, dIn.platform)
            adv  == dOut.advice
        IN  /\ Len(adv) <= 5
            /\ \A i, j \in DOMAIN adv : i # j => adv[i] # adv[j]
            /\ SeqToSet(adv) \subseteq SeqToSet(coll)
            /\ Len(adv) = (IF Cardinality(SeqToSet(coll)) < 5
                           THEN Cardinality(SeqToSet(coll)) ELSE 5)
            /\ \A i, j \in DOMAIN adv : i < j =>
                  /\ FirstAt(coll, adv[i]) < FirstAt(coll, adv[j])
                  /\ AdviceRank(adv[i]) <= AdviceRank(adv[j])
            /\ \A s \in SeqToSet(coll) \ SeqToSet(adv) :
                  \A i \in DOMAIN adv : FirstAt(coll, adv[i]) < FirstAt(coll, s)

\* decide has returned advice for an input whose collected advice repeated a
\* string among its first five
C26_Witness ==
    /\ dOut # NoDecision
    /\ LET coll == CollectedAdvice(dIn.obs, dIn.hist, dIn.platform)
       IN  /\ Len(coll) = 5
           /\ Cardinality(SeqToSet(coll)) = 4
           /\ Len(dOut.advice) = 4
           /\ dOut.advice[4] \in { "Add 5-10 relevant hashtags for Instagram discovery",
                                   "LinkedIn posts with clear CTAs get 2x more engagement" }

\* C27: after run has returned for a user, the latest entry of the user's
\* short-term memory holds the observations of the request and the Decision the
\* response carries; a Decision, once created, is the same at its storage and at
\* its return: it changes only when the next request starts
C27_StoredDecisionIsReturnedDecision ==
    /\ []((RunRequest /\ pc = "done") =>
            /\ ctx.user_id \in DOMAIN shortTerm
            /\ shortTerm[ctx.user_id] # <<>>
            /\ LastEntry(shortTerm, ctx.user_id).observation = observations
            /\ LastEntry(shortTerm, ctx.user_id).decision = response.decision
            /\ response.decision = decision)
    /\ [][(decision # NoDecision /\ decision' # decision)
              => (pc \in {"done", "raised"} /\ decision' = NoDecision)]_vars

\* run has returned for a user whose memory already held an earlier entry
C27_Witness ==
    /\ RunRequest
    /\ pc = "done"
    /\ Len(shortTerm["u1"]) = 2
    /\ shortTerm["u1"][1] = EarlierEntry
    /\ shortTerm["u1"][2].decision = response.decision
    /\ response.decision # EarlierEntry.decision

\* the memory as it was before the latest entry of user_id was written
WithoutLatest(mem, user_id) ==
    [u \in DOMAIN mem |-> IF u = user_id THEN SubSeq(mem[u], 1, Len(mem[u]) - 1) ELSE mem[u]]

\* C28: in run the response is shaped (Advising) before the memory write
\* (Remembered), and what the response of a request holds does not depend on
\* the memory entry written for that request
C28_ResponseShapedBeforeMemoryWrite ==
    (RunRequest /\ pc = "done") =>
        /\ \E i, j \in DOMAIN stageTrace :
              i < j /\ stageTrace[i] = "Advising" /\ stageTrace[j] = "Remembered"
        /\ response.memory_patterns
              = get_patterns(WithoutLatest(shortTerm, ctx.user_id), ctx.user_id)

-----------------------------------------------------------------------------
(* Trend analysis: the direction of the engagement trend *)

\* the days of the window of a trend input: the last `days` days with posts
RefDays(inp) ==
    LET keys == {inp.data[i].created_at : i \in DOMAIN inp.data} \ {0}
    IN  {k \in keys : Cardinality({j \in keys : j > k}) < inp.days}

RefOnDay(inp, k) == SelectSeq(inp.data, LAMBDA p : p.created_at = k)

\* the product of the numbers of posts of the days of the window
RefScale(inp) ==
    ProdSeq([k \in 1..(MaxDays + 1) |->
               IF k \in RefDays(inp) THEN Len(RefOnDay(inp, k)) ELSE 1])

\* RefScale times the sum of the mean engagements of the days in `half`
RefMeans(inp, half) ==
    LET scale == RefScale(inp)
    IN  SumSeq([k \in 1..(MaxDays + 1) |->
                  IF k \in half
                  THEN LET on == RefOnDay(inp, k)
                       IN  (SumSeq([i \in DOMAIN on |-> on[i].engagement]) * scale)
                              \div Len(on)
                  ELSE 0])

\* the first len(values) // 2 days of the window
RefFirstHalf(inp) ==
    LET window == RefDays(inp)
    IN  {k \in window : Cardinality({j \in window : j < k}) < Cardinality(window) \div 2}

\* [n, h, F, S]: the window has n days, its first half h days of means summing
\* to F / scale, its second half n - h days of means summing to S / scale, so
\* the relative change is (S * h - F * (n - h)) / (F * (n - h))
RefHalves(inp) ==
    LET first == RefFirstHalf(inp)
    IN  [n |-> Cardinality(RefDays(inp)),
         h |-> Cardinality(first),
         F |-> RefMeans(inp, first),
         S |-> RefMeans(inp, RefDays(inp) \ first)]

TrendDone == tOut # NoTrend /\ tOut # [mock |-> TRUE]

\* C29 as stated: for every window of days, a relative increase of 10% or
\* more from the first half's mean to the second half's is "increasing", a
\* relative decrease of 10% or more is "decreasing", anything else is
\* "stable"; a first-half mean of 0 (or no first half) gives change 0 and
\* "stable"
C29_TenPercentOrMoreEveryWindow ==
    TrendDone =>
        LET r  == RefHalves(tIn)
            up == r.S * r.h - r.F * (r.n - r.h)
        IN  IF r.h = 0 \/ r.F = 0
            THEN tOut.trend_direction = "stable" /\ tOut.change[1] = 0
            ELSE tOut.trend_direction =
                    (IF 10 * up >= r.F * (r.n - r.h) THEN "increasing"
                     ELSE IF 10 * up <= 0 - r.F * (r.n - r.h) THEN "decreasing"
                     ELSE "stable")

\* C29 amended: for a window of 7 days or more with a positive first-half
\* mean, a relative increase of more than 10% is "increasing", a relative
\* decrease of more than 10% is "decreasing", anything else (a change of
\* exactly 10% included) is "stable"; a window of fewer than 7 days, or a
\* first-half mean of 0, gives change 0 and "stable"
C29_MoreThanTenPercentFromSevenDays ==
    TrendDone =>
        LET r  == RefHalves(tIn)
            up == r.S * r.h - r.F * (r.n - r.h)
        IN  /\ tOut.analysis_period_days = r.n
            /\ IF r.n < 7 \/ r.F = 0
               THEN tOut.trend_direction = "stable" /\ tOut.change[1] = 0
               ELSE tOut.trend_direction =
                       (IF 10 * up > r.F * (r.n - r.h) THEN "increasing"
                        ELSE IF 10 * up < 0 - r.F * (r.n - r.h) THEN "decreasing"
                        ELSE "stable")

\* a window of 7 days or more, a day of it holding two posts, whose second
\* half is exactly 10% above its first half, has been analysed as "stable"
C29_Witness ==
    /\ TrendDone
    /\ LET r == RefHalves(tIn)
       IN  /\ r.n >= 7
           /\ r.F > 0
           /\ 10 * (r.S * r.h - r.F * (r.n - r.h)) = r.F * (r.n - r.h)
    /\ RefScale(tIn) > 1
    /\ tOut.trend_direction = "stable"

-----------------------------------------------------------------------------
(* Pattern detection: what run_full_analysis detects and stores *)

Analysed == analysis.runs > 0 /\ analysis.result.status = "success"

PatternsOfType(patterns, type) == SelectSeq(patterns, LAMBDA x : x.pattern_type = type)

\* the platforms with 2 samples or more in a content history
QualifyingPlatforms(content_data) ==
    {pf \in {content_data[i].platform : i \in DOMAIN content_data} :
        Cardinality({i \in DOMAIN content_data : content_data[i].platform = pf}) >= 2}

\* C30: a platform_performance pattern is detected only for a history in
\* which at least 2 platforms have at least 2 samples each
C30_PlatformPatternNeedsTwoQualifying ==
    Analysed =>
        (PatternsOfType(analysis.result.patterns, "platform_performance") # <<>>
            => Cardinality(QualifyingPlatforms(analysis.history)) >= 2)

\* C21: a run of run_full_analysis that follows a run on the same content
\* history returns the same list of patterns (types, platforms, multipliers,
\* confidence scores, sample sizes, explanations) and adds no row to the
\* stored patterns
C21_RerunGivesSamePatternsInPlace ==
    (Analysed /\ prevAnalysis.runs > 0 /\ prevAnalysis.history = analysis.history)
        => /\ analysis.result.patterns = prevAnalysis.result.patterns
           /\ analysis.result.patterns_detected = prevAnalysis.result.patterns_detected
           /\ analysis.rows_after = analysis.rows_before

\* a second run on an unchanged history has returned, of which two detected
\* patterns share their type and platform and some pattern is of another type
C21_Witness ==
    /\ Analysed
    /\ prevAnalysis.runs > 0
    /\ prevAnalysis.history = analysis.history
    /\ analysis.rows_before > 0
    /\ \E i, j \in DOMAIN analysis.detected :
          /\ i < j
          /\ analysis.detected[i].pattern_type = analysis.detected[j].pattern_type
          /\ analysis.detected[i].platform = analysis.detected[j].platform
          /\ analysis.detected[i] # analysis.detected[j]
    /\ \E i, j \in DOMAIN analysis.result.patterns :
          analysis.result.patterns[i].pattern_type # analysis.result.patterns[j].pattern_type

\* the constant the sample size is divided by in the confidence of a pattern
\* of a given type
NormalizingConstant(type) ==
    CASE type = "content_type"        -> 10
      [] type = "posting_time"        -> 20
      [] type = "posting_day"         -> 15
      [] type = "caption_structure"   -> 8
      [] type = "engagement_velocity" -> 10
      [] type = "platform_performance" -> 15

\* the patterns detected or returned by the latest two runs
SeenPatterns ==
    UNION { SeqToSet(a.detected) \cup SeqToSet(a.result.patterns) :
              a \in {x \in {analysis, prevAnalysis} : x.runs > 0 /\ x.result.status = "success"} }

-----------------------------------------------------------------------------
(* The Decision: the raw score and the clamp *)

\* the content sub-score decide averages with, when it averages
SubScoreInRange(obs) ==
    LET content == Get(obs, "content", EmptyDict)
    IN  Flag(content, "analyzed") => Get(content, "score", 50) \in 0..100

\* C39: when the content sub-score is in 0..100 the raw score (the one the
\* explanation cites) lies in 10..90, so it is the Decision's score, and the
\* verdict is the four-tier verdict of the returned score
C39_RawScoreNeedsNoClamp ==
    (dOut # NoDecision /\ SubScoreInRange(dIn.obs)) =>
        /\ dOut.why.score \in 10..90
        /\ dOut.why.score = dOut.score
        /\ dOut.verdict = FourTier(dOut.score, Len(dOut.warnings))

\* decide has scored an image without visual risk and a caption of sub-score
\* 100 with a strong hook for a user whose engagement grows: the raw score 90
C39_Witness ==
    /\ dOut # NoDecision
    /\ SubScoreInRange(dIn.obs)
    /\ Flag(Get(dIn.obs, "content", EmptyDict), "analyzed")
    /\ dIn.obs["content"].score = 100
    /\ dOut.why.score = 90
    /\ dOut.score = 90
    /\ dOut.verdict = "Post"

-----------------------------------------------------------------------------
(* Memory: the limit of recall *)

\* C32: recall(user_id, limit) returns at most limit entries, for every limit
\* from 0 on and whatever the short-term store holds
C32_RecallAtMostLimit ==
    (recalled # NotRecalled /\ recalled.op = "recall" /\ recalled.limit >= 0)
        => Len(recalled.value) <= recalled.limit

-----------------------------------------------------------------------------
(* The chain: ChainResult.success *)

\* C33: success is false exactly when the chain halted on a required step
\* that failed under stop_on_error = true; in every other run success is true,
\* errors or not, and step_results names every configured step, in order
C33_SuccessFalseIffHalted ==
    chainPc = "done" =>
        LET halted == \E i \in DOMAIN chainSteps : HaltingFailure(i)
        IN  /\ chainResult.success = ~halted
            /\ ~halted =>
                 /\ chainResult.success = TRUE
                 /\ [i \in DOMAIN chainResult.step_results |->
                        chainResult.step_results[i].step]
                      = [i \in DOMAIN chainSteps |-> chainSteps[i].name]

\* a run of two steps or more ended with success = true and two errors: a
\* required step failed without stop_on_error, and another step failed too
C33_Witness ==
    /\ chainPc = "done"
    /\ Len(chainSteps) >= 2
    /\ ~stopOnError
    /\ chainResult.success = TRUE
    /\ Len(chainResult.errors) >= 2
    /\ \E i \in DOMAIN chainSteps :
          chainSteps[i].required /\ ~chainResult.step_results[i].success
    /\ Len(chainResult.step_results) = Len(chainSteps)

-----------------------------------------------------------------------------
(* quick_analyze: what it leaves alone *)

\* C36: a quick_analyze request never reads the history store (the store and
\* the pattern analysis are not called; the history decide is given is
\* {has_data: False}) and none of its steps changes the short-term store of
\* any user
C36_QuickTouchesNeitherHistoryNorMemory ==
    /\ [](env.mode = "quick" =>
            /\ env.store = "not called"
            /\ env.analysis = "not called"
            /\ env.persist = "not called"
            /\ history \in {EmptyDict, [has_data |-> FALSE]}
            /\ (pc = "done" => history = [has_data |-> FALSE]))
    /\ [][env'.mode = "quick" => shortTerm' = shortTerm]_vars

\* quick_analyze has returned a decision for a user whose memory held an
\* entry, and the memory still holds that entry and no other
C36_Witness ==
    /\ QuickRequest
    /\ pc = "done"
    /\ response.decision # EarlierEntry.decision
    /\ shortTerm = ("u1" :> <<EarlierEntry>>)

-----------------------------------------------------------------------------
(* The Router: what route awaits, for every registry *)

\* C35: route awaits a registered agent's function only if that agent
\* matched at least one keyword of the query, and awaits the default handler
\* only if no registered agent matched any -- for every registry, one that
\* holds an agent named "default" included.
C35_AwaitsOnlyWhatScored ==
    routed # NotRouted =>
        /\ (routed.awaited \notin {None, "default_agent"} =>
               \E i \in 1..Len(routes) :
                   /\ routes[i].fn = routed.awaited
                   /\ MatchCount(i, routed.query) > 0)
        /\ (routed.awaited = "default_agent" => Candidates(routed.query) = {})

-----------------------------------------------------------------------------
(* The ParallelExecutor: any list of invocations, a shared context *)

\* the tasks that returned without error
SucceededBranches ==
    {i \in DOMAIN branch : branch[i].status = "returned" /\ Flag(branch[i].value, "success")}

\* C34: for every completed run, agents_succeeded + len(errors) = agents_run
\* and agents_succeeded is the number of branches that returned without
\* error, for any list of added invocations, two invocations added under the
\* same name included.
C34_CountsAddUp ==
    parPc = "done" =>
        /\ parResult.agents_succeeded + Len(parResult.errors) = parResult.agents_run
        /\ parResult.agents_succeeded = Cardinality(SucceededBranches)

\* C31: the branches of one run share no mutable state: no branch finds in
\* the context it receives a key written by another branch, under any
\* interleaving.
C31_NoWriteSeenByAnotherBranch ==
    \A i \in SucceededBranches :
        branch[i].value.result.context_keys = DOMAIN InitialContext

-----------------------------------------------------------------------------
(* The Orchestrator: concurrent requests on the shared memory *)

ConDone == {r \in DOMAIN reqs : reqs[r].pc = "done"}

ConStored == Get(shortTerm, "u1", <<>>)

ReasonKinds(d) == {d.why.reasons[i][1] : i \in DOMAIN d.why.reasons}

SawVision(r) == Flag(Get(reqs[r].observations, "vision", EmptyDict), "analyzed")

SawContent(r) == Flag(Get(reqs[r].observations, "content", EmptyDict), "analyzed")

\* C37: under any interleaving of concurrent run invocations on the shared
\* memory, no memory write is lost -- the short-term store of the user holds
\* one entry per completed request, m entries once all m requests completed
\* -- and each request's decision is computed from its own observations
\* only: it names a visual risk exactly when the request's own vision
\* analysis succeeded, a hook strength exactly when its own content analysis
\* succeeded, and a request that saw only a high-risk image gets the decision
\* that observation alone gives.
C37_OwnObservationsNoLostWrite ==
    /\ Len(ConStored) = Cardinality(ConDone)
    /\ (ConDone = DOMAIN reqs => Len(ConStored) = MaxConcurrent)
    /\ \A r \in ConDone :
         /\ Cardinality({i \in DOMAIN ConStored :
                            /\ ConStored[i].decision = reqs[r].decision
                            /\ ConStored[i].observation = reqs[r].observations}) = 1
         /\ reqs[r].response.decision = reqs[r].decision
         /\ ("Visual risk" \in ReasonKinds(reqs[r].decision)) = SawVision(r)
         /\ ("High visual risk" \in SeqToSet(reqs[r].decision.warnings)) = SawVision(r)
         /\ ("Hook strength" \in ReasonKinds(reqs[r].decision)) = SawContent(r)
         /\ (/\ reqs[r].observations = EarlierEntry.observation
             /\ ~Flag(reqs[r].history, "has_data")
             => [reqs[r].decision EXCEPT !.timestamp = 0] = EarlierEntry.decision)

\* two requests overlapped -- the first to arrive, which saw only a risky
\* image, finished last, after a request that saw only text -- and both
\* completed
C37_Witness ==
    /\ ConDone = DOMAIN reqs
    /\ reqs[1].observations = EarlierEntry.observation
    /\ ~Flag(reqs[1].history, "has_data")
    /\ reqs[1].decision.timestamp > reqs[2].decision.timestamp
    /\ SawContent(2) /\ ~SawVision(2)
    /\ Len(ConStored) = MaxConcurrent

-----------------------------------------------------------------------------
(* The keyed long-term memory *)

\* C38: after any sequence and any interleaving of save_memory calls there
\* is at most one row per (user_id, key), and load_memory returns the value
\* of the last completed save_memory for the pair (None if there was none).
C38_OneRowPerKeyLoadReturnsLast ==
    /\ \A key \in KvKeys : Cardinality(KvMatching(kvRows, key)) <= 1
    /\ (kvLoaded # NotLoaded => kvLoaded.value = kvLoaded.last)

====
